---- MODULE Spec2Model ----
(***************************************************************************)
(* A model of the core of the raft library: the prepare pool of the libuv  *)
(* log store (uv_prepare.c), the client requests of a replica (client.c),  *)
(* the AppendEntriesResult and InstallSnapshot receive handlers, and a     *)
(* small cluster of replicas built from the same handlers.                 *)
(*                                                                         *)
(* C structs are records, C functions are operators from a struct to the   *)
(* struct they leave behind, and each entry point (an API call, a callback *)
(* of the event loop) is one action.                                       *)
(***************************************************************************)
EXTENDS Integers, Sequences, FiniteSets, TLC

VARIABLES uv, raft, ret, cluster, env

vars == <<uv, raft, ret, cluster, env>>

(***************************************************************************)
(* Bounds of the model.                                                    *)
(***************************************************************************)
\* Number of uvPrepare requests submitted in a run of the prepare pool.
MaxPrepareReqs == 3
\* Number of segment allocations started in a run of the prepare pool.
MaxSegments == 4

(***************************************************************************)
(* Generic helpers.                                                        *)
(***************************************************************************)
Min(a, b) == IF a < b THEN a ELSE b

Max(a, b) == IF a > b THEN a ELSE b

Range(s) == {s[i] : i \in 1..Len(s)}

\* The sequence s without its elements that are in the set S.
SeqMinus(s, S) == SelectSeq(s, LAMBDA x : x \notin S)

(***************************************************************************)
(* Status codes (0 is "ok").                                               *)
(***************************************************************************)
OK == "ok"
RAFT_NOMEM == "nomem"
RAFT_IOERR == "ioerr"
RAFT_CANCELED == "canceled"
RAFT_NOTLEADER == "notleader"
RAFT_BADID == "badid"
RAFT_BADROLE == "badrole"
RAFT_CANTCHANGE == "cantchange"
RAFT_NOTFOUND == "notfound"

(***************************************************************************)
(* The prepare pool (uv_prepare.c).                                        *)
(*                                                                         *)
(* uv.prepare_reqs      queue of pending uvPrepare requests (request ids)  *)
(* uv.prepare_pool      queue of ready segments [counter, fd]              *)
(* uv.prepare_inflight  counter of the segment being created, 0 for NULL   *)
(* uv.prepare_next_counter                                                 *)
(* uv.errored, uv.closing                                                  *)
(* uv.work    the preparedSegment objects handed to the thread pool:       *)
(*            [counter, fd, status, canceled, ran]; ran tells whether the  *)
(*            work callback has run (the after-work callback is due)       *)
(* uv.files   counters of the open-<counter> files that exist on disk      *)
(* uv.fds     file descriptors that are open (a segment's descriptor is    *)
(*            named by the counter of the segment)                         *)
(* uv.fired   the request callbacks invoked so far, in order:               *)
(*            [req, status, counter, fd]                                   *)
(* uv.n_reqs  number of uvPrepare calls made so far                        *)
(***************************************************************************)
MAX_CONCURRENT_WRITES == 1

TARGET_POOL_SIZE == 2

\* fd of a segment whose file has not been allocated (s->fd = -1).
NoFd == -1

UvInit ==
    [prepare_reqs |-> <<>>, prepare_pool |-> <<>>, prepare_inflight |-> 0,
     prepare_next_counter |-> 1, errored |-> FALSE, closing |-> FALSE,
     work |-> {}, files |-> {}, fds |-> {}, fired |-> <<>>, n_reqs |-> 0]

\* req->cb(req, status) for a request that gets no segment.
FireFailed(req, status) == [req |-> req, status |-> status, counter |-> 0, fd |-> NoFd]

uvPrepareFlushRequests(u, status) ==
    [u EXCEPT !.prepare_reqs = <<>>,
              !.fired = u.fired \o [i \in 1..Len(u.prepare_reqs) |->
                                       FireFailed(u.prepare_reqs[i], status)]]

\* UvOsClose(s->fd); UvFsRemoveFile(dir, s->filename)
uvPrepareRemove(u, s) ==
    [u EXCEPT !.fds = u.fds \ {s.fd}, !.files = u.files \ {s.counter}]

\* s->canceled = true, on the segment object the thread pool holds.
uvPrepareCancel(u, counter) ==
    [u EXCEPT !.work = {IF s.counter = counter THEN [s EXCEPT !.canceled = TRUE] ELSE s
                        : s \in u.work}]

RECURSIVE RemovePool(_)
RemovePool(u) ==
    IF u.prepare_pool = <<>> THEN u
    ELSE RemovePool(uvPrepareRemove([u EXCEPT !.prepare_pool = Tail(u.prepare_pool)],
                                    Head(u.prepare_pool)))

uvPrepareClose(u) ==
    LET flushed == uvPrepareFlushRequests(u, RAFT_CANCELED)
        emptied == RemovePool(flushed)
    IN  IF emptied.prepare_inflight # 0
        THEN uvPrepareCancel(emptied, emptied.prepare_inflight)
        ELSE emptied

\* As uvPrepareProcessRequests, but popping the tail of the pool.
RECURSIVE uvPrepareProcessRequests_NewestSegment(_)
uvPrepareProcessRequests_NewestSegment(u) ==
    IF u.prepare_reqs = <<>> \/ u.prepare_pool = <<>> THEN u
    ELSE LET segment == u.prepare_pool[Len(u.prepare_pool)]
             req == Head(u.prepare_reqs)
         IN  uvPrepareProcessRequests_NewestSegment(
                 [u EXCEPT !.prepare_pool = SubSeq(u.prepare_pool, 1, Len(u.prepare_pool) - 1),
                           !.prepare_reqs = Tail(u.prepare_reqs),
                           !.fired = Append(u.fired,
                                            [req |-> req, status |-> OK,
                                             counter |-> segment.counter,
                                             fd |-> segment.fd])])

\* As uvPrepareProcessRequests, but popping the tail of the requests queue.
RECURSIVE uvPrepareProcessRequests_NewestRequest(_)
uvPrepareProcessRequests_NewestRequest(u) ==
    IF u.prepare_reqs = <<>> \/ u.prepare_pool = <<>> THEN u
    ELSE LET segment == Head(u.prepare_pool)
             req == u.prepare_reqs[Len(u.prepare_reqs)]
         IN  uvPrepareProcessRequests_NewestRequest(
                 [u EXCEPT !.prepare_pool = Tail(u.prepare_pool),
                           !.prepare_reqs = SubSeq(u.prepare_reqs, 1, Len(u.prepare_reqs) - 1),
                           !.fired = Append(u.fired,
                                            [req |-> req, status |-> OK,
                                             counter |-> segment.counter,
                                             fd |-> segment.fd])])

RECURSIVE uvPrepareProcessRequests(_)
uvPrepareProcessRequests(u) ==
    IF u.prepare_reqs = <<>> \/ u.prepare_pool = <<>> THEN u
    ELSE LET segment == Head(u.prepare_pool)
             req == Head(u.prepare_reqs)
         IN  uvPrepareProcessRequests(
                 [u EXCEPT !.prepare_pool = Tail(u.prepare_pool),
                           !.prepare_reqs = Tail(u.prepare_reqs),
                           !.fired = Append(u.fired,
                                            [req |-> req, status |-> OK,
                                             counter |-> segment.counter,
                                             fd |-> segment.fd])])

\* The work callback, run by a thread of the pool: out is what the file
\* system does ("ok", "allocate" fails, "sync" fails).
uvPrepareCreateFileWorkCb(u, s, out) ==
    LET done == IF out = "ok"
                THEN [s EXCEPT !.fd = s.counter, !.status = OK, !.ran = TRUE]
                ELSE [s EXCEPT !.status = RAFT_IOERR, !.ran = TRUE,
                               !.fd = IF out = "sync" THEN s.counter ELSE NoFd]
    IN  [u EXCEPT !.work = (u.work \ {s}) \cup {done},
                  \* UvFsAllocateFile leaves the file behind unless it failed
                  !.files = IF out = "allocate" THEN u.files ELSE u.files \cup {s.counter},
                  \* err_after_allocate closes the descriptor again
                  !.fds = IF out = "ok" THEN u.fds \cup {s.counter} ELSE u.fds]

\* prepareSegment without uv->prepare_next_counter++.
prepareSegment_KeepsCounter(u, fail) ==
    IF fail = "nomem" THEN [rv |-> RAFT_NOMEM, u |-> u]
    ELSE IF fail = "queue" THEN [rv |-> RAFT_IOERR, u |-> u]
    ELSE [rv |-> OK,
          u |-> [u EXCEPT !.work = u.work \cup {[counter |-> u.prepare_next_counter,
                                                 fd |-> NoFd, status |-> OK,
                                                 canceled |-> FALSE, ran |-> FALSE]},
                          !.prepare_inflight = u.prepare_next_counter]]

\* Start creating a new segment file; fail is "none", "nomem" (raft_malloc)
\* or "queue" (uv_queue_work).
prepareSegment(u, fail) ==
    IF fail = "nomem" THEN [rv |-> RAFT_NOMEM, u |-> u]
    ELSE IF fail = "queue" THEN [rv |-> RAFT_IOERR, u |-> u]
    ELSE [rv |-> OK,
          u |-> [u EXCEPT !.work = u.work \cup {[counter |-> u.prepare_next_counter,
                                                 fd |-> NoFd, status |-> OK,
                                                 canceled |-> FALSE, ran |-> FALSE]},
                          !.prepare_inflight = u.prepare_next_counter,
                          !.prepare_next_counter = u.prepare_next_counter + 1]]

maybePrepareSegmentNoInflightCheck(u, fail) ==
    IF Len(u.prepare_pool) < TARGET_POOL_SIZE
    THEN LET p == prepareSegment(u, fail)
         IN  IF p.rv # OK
             THEN [uvPrepareFlushRequests(p.u, p.rv) EXCEPT !.errored = TRUE]
             ELSE p.u
    ELSE u

maybePrepareSegment(u, fail) ==
    IF u.prepare_inflight # 0 THEN u
    ELSE IF Len(u.prepare_pool) < TARGET_POOL_SIZE
    THEN LET p == prepareSegment(u, fail)
         IN  IF p.rv # OK
             THEN [uvPrepareFlushRequests(p.u, p.rv) EXCEPT !.errored = TRUE]
             ELSE p.u
    ELSE u

\* As uvPrepareCreateFileAfterWorkCb, but taking a failed allocation that was
\* not canceled for a successful one.
uvPrepareCreateFileAfterWorkCb_IgnoresStatus(u, s, fail) ==
    LET u1 == [u EXCEPT !.prepare_inflight = 0, !.work = u.work \ {s}]
    IN  IF s.canceled
        THEN IF s.status = OK
             THEN [u1 EXCEPT !.fds = u1.fds \ {s.fd}, !.files = u1.files \ {s.counter}]
             ELSE u1
        ELSE maybePrepareSegment(
                 uvPrepareProcessRequests(
                     [u1 EXCEPT !.prepare_pool =
                                    Append(u1.prepare_pool,
                                           [counter |-> s.counter, fd |-> s.fd])]),
                 fail)

uvPrepareCreateFileAfterWorkCb(u, s, fail) ==
    LET u1 == [u EXCEPT !.prepare_inflight = 0, !.work = u.work \ {s}]
    IN  IF s.canceled
        THEN IF s.status = OK
             THEN [u1 EXCEPT !.fds = u1.fds \ {s.fd}, !.files = u1.files \ {s.counter}]
             ELSE u1
        ELSE IF s.status # OK
        THEN [uvPrepareFlushRequests(u1, RAFT_IOERR) EXCEPT !.errored = TRUE]
        ELSE maybePrepareSegment(
                 uvPrepareProcessRequests(
                     [u1 EXCEPT !.prepare_pool =
                                    Append(u1.prepare_pool,
                                           [counter |-> s.counter, fd |-> s.fd])]),
                 fail)

\* uvPrepare without the call of maybePrepareSegment.
uvPrepare_NoAllocation(u, req, fail) ==
    uvPrepareProcessRequests([u EXCEPT !.prepare_reqs = Append(u.prepare_reqs, req)])

uvPrepare(u, req, fail) ==
    maybePrepareSegment(
        uvPrepareProcessRequests([u EXCEPT !.prepare_reqs = Append(u.prepare_reqs, req)]),
        fail)

\* What prepareSegment may be told by the allocator and the thread pool; a
\* run starts at most MaxSegments allocations.
PrepareFailures(u) ==
    IF u.prepare_next_counter > MaxSegments THEN {"nomem"} ELSE {"none", "nomem", "queue"}

(***************************************************************************)
(* Actions of the prepare pool.  ret tells which entry point ran last and  *)
(* how many request callbacks it invoked before it returned.               *)
(***************************************************************************)
PrepareRet(op, before, after) ==
    [op |-> op, rv |-> OK, fired |-> Len(after.fired) - Len(before.fired)]

UvPrepare ==
    /\ ~uv.closing
    /\ uv.n_reqs < MaxPrepareReqs
    /\ \E fail \in PrepareFailures(uv) :
          uv' = uvPrepare([uv EXCEPT !.n_reqs = uv.n_reqs + 1], uv.n_reqs + 1, fail)
    /\ ret' = PrepareRet("uvPrepare", uv, uv')
    /\ UNCHANGED <<raft, cluster, env>>

UvPrepareCreateFileWork ==
    /\ \E s \in uv.work, out \in {"ok", "allocate", "sync"} :
          /\ ~s.ran
          /\ uv' = uvPrepareCreateFileWorkCb(uv, s, out)
    /\ ret' = PrepareRet("uvPrepareCreateFileWorkCb", uv, uv')
    /\ UNCHANGED <<raft, cluster, env>>

UvPrepareCreateFileAfterWork ==
    /\ \E s \in uv.work, fail \in PrepareFailures(uv) :
          /\ s.ran
          /\ uv' = uvPrepareCreateFileAfterWorkCb(uv, s, fail)
    /\ ret' = PrepareRet("uvPrepareCreateFileAfterWorkCb", uv, uv')
    /\ UNCHANGED <<raft, cluster, env>>

\* uvClose sets uv->closing and calls uvPrepareClose.
UvPrepareClose ==
    /\ ~uv.closing
    /\ uv' = uvPrepareClose([uv EXCEPT !.closing = TRUE])
    /\ ret' = PrepareRet("uvPrepareClose", uv, uv')
    /\ UNCHANGED <<raft, cluster, env>>

PrepareInit ==
    /\ uv = UvInit
    /\ raft = 0
    /\ ret = [op |-> "none", rv |-> OK, fired |-> 0]
    /\ cluster = 0
    /\ env = 0

PrepareNext ==
    \/ UvPrepare
    \/ UvPrepareCreateFileWork
    \/ UvPrepareCreateFileAfterWork
    \/ UvPrepareClose

PrepareSpec == PrepareInit /\ [][PrepareNext]_vars

(***************************************************************************)
(* C1: in every reachable state of the prepare pool the pool holds at most *)
(* TARGET_POOL_SIZE (2) ready segments and the thread pool holds at most   *)
(* one segment allocation.                                                 *)
(***************************************************************************)
PreparePoolBound ==
    /\ Len(uv.prepare_pool) <= TARGET_POOL_SIZE
    /\ Cardinality(uv.work) <= 1

\* The fullest pool: an allocation completed into a pool that already held
\* a segment, requests were served meanwhile, and nothing more is in flight.
PreparePoolFull ==
    /\ Len(uv.prepare_pool) = TARGET_POOL_SIZE
    /\ uv.work = {}
    /\ uv.fired # <<>>

(***************************************************************************)
(* A replica (struct raft).                                                *)
(*                                                                         *)
(* id, state, current_term, voted_for                                      *)
(* log            sequence of entries [term, type, data]; the data of a    *)
(*                configuration entry is the configuration it encodes      *)
(* commit_index, last_applied                                              *)
(* configuration  sequence of servers [id, role]                           *)
(* configuration_index, configuration_uncommitted_index                    *)
(* transfer       id of the target of the leadership transfer in progress, *)
(*                0 for NULL                                               *)
(* current_leader, election_timer_start   (follower state)                 *)
(* progress       leader_state.progress: one [next_index, match_index,     *)
(*                state] per server of the configuration                   *)
(* requests       leader_state.requests: queue of pending [req, type,      *)
(*                index]                                                   *)
(* change         leader_state.change: id of the registered raft_change    *)
(*                request, 0 for NULL                                      *)
(* promotee_id, round_number, round_index, round_start                     *)
(* now            the clock of r->io->time()                               *)
(* installing     the snapshot being installed, NoSnapshot if none         *)
(* fired          callbacks of client requests invoked by the entry point  *)
(*                that ran last: [req, status]                             *)
(***************************************************************************)
RAFT_UNAVAILABLE == "unavailable"
RAFT_FOLLOWER == "follower"
RAFT_CANDIDATE == "candidate"
RAFT_LEADER == "leader"

RAFT_STANDBY == "standby"
RAFT_VOTER == "voter"
RAFT_SPARE == "spare"

RAFT_COMMAND == "command"
RAFT_BARRIER == "barrier"
RAFT_CHANGE == "change"

PROGRESS__PROBE == "probe"
PROGRESS__PIPELINE == "pipeline"
PROGRESS__SNAPSHOT == "snapshot"

(***************************************************************************)
(* The in-memory log (log.h), modelled from section 4.3 of the             *)
(* specification.                                                          *)
(***************************************************************************)
\* A log is [snapshot_last_index, snapshot_last_term, entries]: the entries
\* cover the indices snapshot_last_index + 1 .. logLastIndex.
EmptyLog == [snapshot_last_index |-> 0, snapshot_last_term |-> 0, entries |-> <<>>]

logLastIndex(l) == l.snapshot_last_index + Len(l.entries)

logNumEntries(l) == Len(l.entries)

logGet(l, i) == l.entries[i - l.snapshot_last_index]

logHas(l, i) == i > l.snapshot_last_index /\ i <= logLastIndex(l)

logTermOf(l, i) ==
    IF logHas(l, i) THEN logGet(l, i).term
    ELSE IF i = l.snapshot_last_index THEN l.snapshot_last_term
    ELSE 0

logLastTerm(l) == logTermOf(l, logLastIndex(l))

logAppend(l, term, type, data) ==
    [l EXCEPT !.entries = Append(l.entries, [term |-> term, type |-> type, data |-> data])]

\* One command entry per buffer.
logAppendCommands(l, term, bufs) ==
    [l EXCEPT !.entries = l.entries \o
        [i \in 1..Len(bufs) |-> [term |-> term, type |-> RAFT_COMMAND, data |-> bufs[i]]]]

logAppendConfiguration(l, term, configuration) ==
    logAppend(l, term, RAFT_CHANGE, configuration)

\* Drop the entries at index and above.
logTruncate(l, index) ==
    [l EXCEPT !.entries = SubSeq(l.entries, 1,
                                 Min(Len(l.entries), index - 1 - l.snapshot_last_index))]

\* As logTruncate, without releasing the payloads.
logDiscard(l, index) ==
    [l EXCEPT !.entries = SubSeq(l.entries, 1,
                                 Min(Len(l.entries), index - 1 - l.snapshot_last_index))]

\* Drop the entries up to last_index and pin the prefix there; a snapshot
\* beyond the log replaces it.
logSnapshotRestored(l, last_index, last_term) ==
    [snapshot_last_index |-> last_index, snapshot_last_term |-> last_term,
     entries |-> IF last_index >= logLastIndex(l) THEN <<>>
                 ELSE SubSeq(l.entries, last_index - l.snapshot_last_index + 1,
                             Len(l.entries))]

(***************************************************************************)
(* Configurations (configuration.h), modelled from section 3.              *)
(***************************************************************************)
\* Position of the server with the given id, Len + 1 if there is none.
configurationIndexOf(c, id) ==
    IF \E i \in 1..Len(c) : c[i].id = id
    THEN CHOOSE i \in 1..Len(c) : c[i].id = id /\ \A j \in 1..(i - 1) : c[j].id # id
    ELSE Len(c) + 1

\* What stands for the NULL server pointer.
NullServer == [id |-> 0, role |-> "null"]

\* The server with the given id, NullServer if there is none.
configurationGet(c, id) ==
    IF configurationIndexOf(c, id) <= Len(c) THEN c[configurationIndexOf(c, id)]
    ELSE NullServer

configurationVoters(c) == {c[i].id : i \in {j \in 1..Len(c) : c[j].role = RAFT_VOTER}}

configurationVoterCount(c) == Cardinality(configurationVoters(c))

\* Ids are unique and nonzero.
raft_configuration_add(c, id, role) ==
    IF id = 0 \/ configurationGet(c, id) # NullServer
    THEN [rv |-> RAFT_BADID, c |-> c]
    ELSE [rv |-> OK, c |-> Append(c, [id |-> id, role |-> role])]

configurationRemove(c, id) ==
    IF configurationGet(c, id) = NullServer
    THEN [rv |-> RAFT_BADID, c |-> c]
    ELSE [rv |-> OK, c |-> SelectSeq(c, LAMBDA s : s.id # id)]

(***************************************************************************)
(* The progress tracker (progress.h), modelled from section 4.4.           *)
(***************************************************************************)
initProgress(last_index) ==
    [next_index |-> last_index + 1, match_index |-> 0,
     state |-> PROGRESS__PROBE]

progressBuildArray(r) ==
    [i \in 1..Len(r.configuration) |-> initProgress(logLastIndex(r.log))]

\* The progress array of a new configuration: a server that stays keeps its
\* progress, a new one starts from the last index.
progressRebuildArray(r, configuration) ==
    [i \in 1..Len(configuration) |->
        IF configurationGet(r.configuration, configuration[i].id) # NullServer
        THEN r.progress[configurationIndexOf(r.configuration, configuration[i].id)]
        ELSE initProgress(logLastIndex(r.log))]

progressMatchIndex(r, i) == r.progress[i].match_index

progressIsUpToDate(r, i) == r.progress[i].match_index = logLastIndex(r.log)

(***************************************************************************)
(* Collaborators of the client requests that live in replication.h and     *)
(* membership.h, modelled from sections 4.5, 4.6 and 7.                    *)
(***************************************************************************)
QUEUE_REMOVE(q, req) == SelectSeq(q, LAMBDA x : x.req # req)

\* Start writing the entry at index to disk and send it to the followers:
\* rv is what the I/O backend answers. The write and the sends themselves are
\* steps of the backend.
replicationTrigger(r, index, rv) == [rv |-> rv, r |-> r]

\* Send an AppendEntries or InstallSnapshot to the i'th server; a failure to
\* send is not fatal and changes nothing.
replicationProgress(r, i) == [rv |-> OK, r |-> r]

\* not-leader on a non-leader or during a transfer; conf-busy while another
\* change is registered, uncommitted or catching up.
membershipCanChangeConfiguration(r) ==
    IF r.state # RAFT_LEADER \/ r.transfer # 0 THEN RAFT_NOTLEADER
    ELSE IF r.configuration_uncommitted_index # 0 THEN RAFT_CANTCHANGE
    ELSE IF r.promotee_id # 0 THEN RAFT_CANTCHANGE
    ELSE IF r.change # 0 THEN RAFT_CANTCHANGE
    ELSE OK

membershipLeadershipTransferInit(r, req, id) == [r EXCEPT !.transfer = id]

\* Send TimeoutNow to the target; rv is what the transport answers.
membershipLeadershipTransferStart(r, rv) == [rv |-> rv, r |-> r]

\* What r->configuration.servers reads as after the array it points to was
\* freed: the old contents, or whatever the allocator put there.
FreedServers(c, heap) ==
    IF heap = "intact" THEN c
    ELSE [i \in 1..Len(c) |-> [id |-> 0, role |-> RAFT_SPARE]]

(***************************************************************************)
(* Client requests (client.c).  fail names the step that fails, if the     *)
(* call gets to it: "append" (the log append), "rebuild" (the progress     *)
(* array), "trigger" (replicationTrigger), "copy" (configurationCopy),     *)
(* "start" (sending TimeoutNow); "none" if nothing fails.                  *)
(***************************************************************************)
raft_apply_NoRollback(r, req, bufs, fail) ==
    IF r.state # RAFT_LEADER \/ r.transfer # 0 THEN [rv |-> RAFT_NOTLEADER, r |-> r]
    ELSE IF fail = "append" THEN [rv |-> RAFT_NOMEM, r |-> r]
    ELSE LET index == logLastIndex(r.log) + 1
             r1 == [r EXCEPT !.log = logAppendCommands(r.log, r.current_term, bufs),
                             !.requests = Append(r.requests,
                                                 [req |-> req, type |-> RAFT_COMMAND,
                                                  index |-> index])]
             t == replicationTrigger(r1, index, IF fail = "trigger" THEN RAFT_IOERR ELSE OK)
         IN  IF t.rv # OK
             THEN [rv |-> t.rv, r |-> [t.r EXCEPT !.requests = QUEUE_REMOVE(t.r.requests, req)]]
             ELSE [rv |-> OK, r |-> t.r]

raft_apply_NoTransferCheck(r, req, bufs, fail) ==
    IF r.state # RAFT_LEADER THEN [rv |-> RAFT_NOTLEADER, r |-> r]
    ELSE IF fail = "append" THEN [rv |-> RAFT_NOMEM, r |-> r]
    ELSE LET index == logLastIndex(r.log) + 1
             r1 == [r EXCEPT !.log = logAppendCommands(r.log, r.current_term, bufs),
                             !.requests = Append(r.requests,
                                                 [req |-> req, type |-> RAFT_COMMAND,
                                                  index |-> index])]
             t == replicationTrigger(r1, index, IF fail = "trigger" THEN RAFT_IOERR ELSE OK)
         IN  IF t.rv # OK
             THEN [rv |-> t.rv,
                   r |-> [t.r EXCEPT !.log = logDiscard(t.r.log, index),
                                     !.requests = QUEUE_REMOVE(t.r.requests, req)]]
             ELSE [rv |-> OK, r |-> t.r]

raft_apply(r, req, bufs, fail) ==
    IF r.state # RAFT_LEADER \/ r.transfer # 0 THEN [rv |-> RAFT_NOTLEADER, r |-> r]
    ELSE IF fail = "append" THEN [rv |-> RAFT_NOMEM, r |-> r]
    ELSE LET index == logLastIndex(r.log) + 1
             r1 == [r EXCEPT !.log = logAppendCommands(r.log, r.current_term, bufs),
                             !.requests = Append(r.requests,
                                                 [req |-> req, type |-> RAFT_COMMAND,
                                                  index |-> index])]
             t == replicationTrigger(r1, index, IF fail = "trigger" THEN RAFT_IOERR ELSE OK)
         IN  IF t.rv # OK
             THEN [rv |-> t.rv,
                   r |-> [t.r EXCEPT !.log = logDiscard(t.r.log, index),
                                     !.requests = QUEUE_REMOVE(t.r.requests, req)]]
             ELSE [rv |-> OK, r |-> t.r]

raft_barrier_DiscardsOneMore(r, req, fail) ==
    IF r.state # RAFT_LEADER \/ r.transfer # 0 THEN [rv |-> RAFT_NOTLEADER, r |-> r]
    ELSE IF fail = "buf" THEN [rv |-> RAFT_NOMEM, r |-> r]
    ELSE IF fail = "append" THEN [rv |-> RAFT_NOMEM, r |-> r]
    ELSE LET index == logLastIndex(r.log) + 1
             r1 == [r EXCEPT !.log = logAppend(r.log, r.current_term, RAFT_BARRIER, 0),
                             !.requests = Append(r.requests,
                                                 [req |-> req, type |-> RAFT_BARRIER,
                                                  index |-> index])]
             t == replicationTrigger(r1, index, IF fail = "trigger" THEN RAFT_IOERR ELSE OK)
         IN  IF t.rv # OK
             THEN [rv |-> t.rv,
                   r |-> [t.r EXCEPT !.log = logDiscard(t.r.log, Max(index - 1, 2)),
                                     !.requests = QUEUE_REMOVE(t.r.requests, req)]]
             ELSE [rv |-> OK, r |-> t.r]

\* fail = "buf" is the failure of raft_malloc for the barrier's buffer.
raft_barrier(r, req, fail) ==
    IF r.state # RAFT_LEADER \/ r.transfer # 0 THEN [rv |-> RAFT_NOTLEADER, r |-> r]
    ELSE IF fail = "buf" THEN [rv |-> RAFT_NOMEM, r |-> r]
    ELSE IF fail = "append" THEN [rv |-> RAFT_NOMEM, r |-> r]
    ELSE LET index == logLastIndex(r.log) + 1
             r1 == [r EXCEPT !.log = logAppend(r.log, r.current_term, RAFT_BARRIER, 0),
                             !.requests = Append(r.requests,
                                                 [req |-> req, type |-> RAFT_BARRIER,
                                                  index |-> index])]
             t == replicationTrigger(r1, index, IF fail = "trigger" THEN RAFT_IOERR ELSE OK)
         IN  IF t.rv # OK
             THEN [rv |-> t.rv,
                   r |-> [t.r EXCEPT !.log = logDiscard(t.r.log, index),
                                     !.requests = QUEUE_REMOVE(t.r.requests, req)]]
             ELSE [rv |-> OK, r |-> t.r]

\* clientChangeConfiguration that leaves r->configuration alone.
clientChangeConfiguration_KeepsConfiguration(r, req, configuration, fail) ==
    LET index == logLastIndex(r.log) + 1
        term == r.current_term
    IN  IF fail = "append" THEN [rv |-> RAFT_NOMEM, r |-> r, installed |-> FALSE]
        ELSE
        LET r1 == [r EXCEPT !.log = logAppendConfiguration(r.log, term, configuration)]
        IN  IF Len(configuration) # Len(r1.configuration) /\ fail = "rebuild"
            THEN [rv |-> RAFT_NOMEM, r |-> r1, installed |-> FALSE]
            ELSE
            LET r2 == IF Len(configuration) # Len(r1.configuration)
                      THEN [r1 EXCEPT !.progress = progressRebuildArray(r1, configuration)]
                      ELSE r1
                r3 == r2
                t == replicationTrigger(r3, index,
                                        IF fail = "trigger" THEN RAFT_IOERR ELSE OK)
            IN  IF t.rv # OK
                THEN [rv |-> t.rv, r |-> [t.r EXCEPT !.log = logTruncate(t.r.log, index)],
                      installed |-> TRUE]
                ELSE [rv |-> OK,
                      r |-> [t.r EXCEPT !.configuration_uncommitted_index = index],
                      installed |-> TRUE]

\* clientChangeConfiguration that does not record the uncommitted index.
clientChangeConfiguration_AtCommit(r, req, configuration, fail) ==
    LET index == logLastIndex(r.log) + 1
        term == r.current_term
    IN  IF fail = "append" THEN [rv |-> RAFT_NOMEM, r |-> r, installed |-> FALSE]
        ELSE
        LET r1 == [r EXCEPT !.log = logAppendConfiguration(r.log, term, configuration)]
        IN  IF Len(configuration) # Len(r1.configuration) /\ fail = "rebuild"
            THEN [rv |-> RAFT_NOMEM, r |-> r1, installed |-> FALSE]
            ELSE
            LET r2 == IF Len(configuration) # Len(r1.configuration)
                      THEN [r1 EXCEPT !.progress = progressRebuildArray(r1, configuration)]
                      ELSE r1
                r3 == [r2 EXCEPT !.configuration = configuration]
                t == replicationTrigger(r3, index,
                                        IF fail = "trigger" THEN RAFT_IOERR ELSE OK)
            IN  IF t.rv # OK
                THEN [rv |-> t.rv, r |-> [t.r EXCEPT !.log = logTruncate(t.r.log, index)],
                      installed |-> TRUE]
                ELSE [rv |-> OK,
                      r |-> t.r,
                      installed |-> TRUE]

\* installed tells the caller whether r->configuration now is (a shallow copy
\* of) the configuration object it passed.
clientChangeConfiguration(r, req, configuration, fail) ==
    LET index == logLastIndex(r.log) + 1
        term == r.current_term
    IN  IF fail = "append" THEN [rv |-> RAFT_NOMEM, r |-> r, installed |-> FALSE]
        ELSE
        LET r1 == [r EXCEPT !.log = logAppendConfiguration(r.log, term, configuration)]
        IN  IF Len(configuration) # Len(r1.configuration) /\ fail = "rebuild"
            THEN [rv |-> RAFT_NOMEM, r |-> r1, installed |-> FALSE]
            ELSE
            LET r2 == IF Len(configuration) # Len(r1.configuration)
                      THEN [r1 EXCEPT !.progress = progressRebuildArray(r1, configuration)]
                      ELSE r1
                r3 == [r2 EXCEPT !.configuration = configuration]
                t == replicationTrigger(r3, index,
                                        IF fail = "trigger" THEN RAFT_IOERR ELSE OK)
            IN  IF t.rv # OK
                THEN [rv |-> t.rv, r |-> [t.r EXCEPT !.log = logTruncate(t.r.log, index)],
                      installed |-> TRUE]
                ELSE [rv |-> OK,
                      r |-> [t.r EXCEPT !.configuration_uncommitted_index = index],
                      installed |-> TRUE]

\* raft_add of a stand-by.
raft_add_AsStandby(r, req, id, fail, heap) ==
    LET can == membershipCanChangeConfiguration(r)
    IN  IF can # OK THEN [rv |-> can, r |-> r]
        ELSE IF fail = "copy" THEN [rv |-> RAFT_NOMEM, r |-> r]
        ELSE
        LET a == raft_configuration_add(r.configuration, id, RAFT_STANDBY)
        IN  IF a.rv # OK THEN [rv |-> a.rv, r |-> r]
            ELSE
            LET c == clientChangeConfiguration(r, req, a.c, fail)
            IN  IF c.rv # OK
                THEN \* raft_configuration_close(&configuration) frees the array
                     \* that r->configuration.servers points to, if it was installed
                     [rv |-> c.rv,
                      r |-> IF c.installed
                            THEN [c.r EXCEPT !.configuration = FreedServers(a.c, heap)]
                            ELSE c.r]
                ELSE [rv |-> OK, r |-> [c.r EXCEPT !.change = req]]

\* heap is what the freed servers array reads as afterwards, see FreedServers.
raft_add(r, req, id, fail, heap) ==
    LET can == membershipCanChangeConfiguration(r)
    IN  IF can # OK THEN [rv |-> can, r |-> r]
        ELSE IF fail = "copy" THEN [rv |-> RAFT_NOMEM, r |-> r]
        ELSE
        LET a == raft_configuration_add(r.configuration, id, RAFT_SPARE)
        IN  IF a.rv # OK THEN [rv |-> a.rv, r |-> r]
            ELSE
            LET c == clientChangeConfiguration(r, req, a.c, fail)
            IN  IF c.rv # OK
                THEN \* raft_configuration_close(&configuration) frees the array
                     \* that r->configuration.servers points to, if it was installed
                     [rv |-> c.rv,
                      r |-> IF c.installed
                            THEN [c.r EXCEPT !.configuration = FreedServers(a.c, heap)]
                            ELSE c.r]
                ELSE [rv |-> OK, r |-> [c.r EXCEPT !.change = req]]

ValidRoles == {RAFT_STANDBY, RAFT_VOTER, RAFT_SPARE}

\* raft_assign with a first round that ends beyond the last index.
raft_assign_RoundBeyondLog(r, req, id, role, fail) ==
    IF role \notin ValidRoles THEN [rv |-> RAFT_BADROLE, r |-> r]
    ELSE
    LET can == membershipCanChangeConfiguration(r)
    IN  IF can # OK THEN [rv |-> can, r |-> r]
        ELSE IF configurationGet(r.configuration, id) = NullServer THEN [rv |-> RAFT_NOTFOUND, r |-> r]
        ELSE IF configurationGet(r.configuration, id).role = role
        THEN [rv |-> RAFT_BADROLE, r |-> r]
        ELSE
        LET server_index == configurationIndexOf(r.configuration, id)
            last_index == logLastIndex(r.log)
            r1 == [r EXCEPT !.change = req]
        IN  IF role # RAFT_VOTER \/ progressMatchIndex(r1, server_index) = last_index
            THEN LET old_role == r1.configuration[server_index].role
                     r2 == [r1 EXCEPT !.configuration[server_index].role = role]
                     c == clientChangeConfiguration(r2, req, r2.configuration, fail)
                 IN  IF c.rv # OK
                     THEN [rv |-> c.rv,
                           r |-> [c.r EXCEPT !.configuration[server_index].role = old_role]]
                     ELSE [rv |-> OK, r |-> c.r]
            ELSE LET r2 == [r1 EXCEPT !.promotee_id = id,
                                      !.round_number = 1,
                                      !.round_index = last_index + 1,
                                      !.round_start = r1.now]
                 IN  [rv |-> OK, r |-> replicationProgress(r2, server_index).r]

\* raft_assign that submits the configuration without the new role.
raft_assign_KeepsRole(r, req, id, role, fail) ==
    IF role \notin ValidRoles THEN [rv |-> RAFT_BADROLE, r |-> r]
    ELSE
    LET can == membershipCanChangeConfiguration(r)
    IN  IF can # OK THEN [rv |-> can, r |-> r]
        ELSE IF configurationGet(r.configuration, id) = NullServer THEN [rv |-> RAFT_NOTFOUND, r |-> r]
        ELSE IF configurationGet(r.configuration, id).role = role
        THEN [rv |-> RAFT_BADROLE, r |-> r]
        ELSE
        LET server_index == configurationIndexOf(r.configuration, id)
            last_index == logLastIndex(r.log)
            r1 == [r EXCEPT !.change = req]
        IN  IF role # RAFT_VOTER \/ progressMatchIndex(r1, server_index) = last_index
            THEN LET old_role == r1.configuration[server_index].role
                     r2 == r1
                     c == clientChangeConfiguration(r2, req, r2.configuration, fail)
                 IN  IF c.rv # OK
                     THEN [rv |-> c.rv,
                           r |-> [c.r EXCEPT !.configuration[server_index].role = old_role]]
                     ELSE [rv |-> OK, r |-> c.r]
            ELSE LET r2 == [r1 EXCEPT !.promotee_id = id,
                                      !.round_number = 1,
                                      !.round_index = last_index,
                                      !.round_start = r1.now]
                 IN  [rv |-> OK, r |-> replicationProgress(r2, server_index).r]

\* raft_assign that never waits for the promotee to catch up.
raft_assign_AlwaysImmediate(r, req, id, role, fail) ==
    IF role \notin ValidRoles THEN [rv |-> RAFT_BADROLE, r |-> r]
    ELSE
    LET can == membershipCanChangeConfiguration(r)
    IN  IF can # OK THEN [rv |-> can, r |-> r]
        ELSE IF configurationGet(r.configuration, id) = NullServer THEN [rv |-> RAFT_NOTFOUND, r |-> r]
        ELSE IF configurationGet(r.configuration, id).role = role
        THEN [rv |-> RAFT_BADROLE, r |-> r]
        ELSE
        LET server_index == configurationIndexOf(r.configuration, id)
            last_index == logLastIndex(r.log)
            r1 == [r EXCEPT !.change = req]
        IN  IF role # RAFT_VOTER \/ progressMatchIndex(r1, server_index) <= last_index
            THEN LET old_role == r1.configuration[server_index].role
                     r2 == [r1 EXCEPT !.configuration[server_index].role = role]
                     c == clientChangeConfiguration(r2, req, r2.configuration, fail)
                 IN  IF c.rv # OK
                     THEN [rv |-> c.rv,
                           r |-> [c.r EXCEPT !.configuration[server_index].role = old_role]]
                     ELSE [rv |-> OK, r |-> c.r]
            ELSE LET r2 == [r1 EXCEPT !.promotee_id = id,
                                      !.round_number = 1,
                                      !.round_index = last_index,
                                      !.round_start = r1.now]
                 IN  [rv |-> OK, r |-> replicationProgress(r2, server_index).r]

raft_assign(r, req, id, role, fail) ==
    IF role \notin ValidRoles THEN [rv |-> RAFT_BADROLE, r |-> r]
    ELSE
    LET can == membershipCanChangeConfiguration(r)
    IN  IF can # OK THEN [rv |-> can, r |-> r]
        ELSE IF configurationGet(r.configuration, id) = NullServer THEN [rv |-> RAFT_NOTFOUND, r |-> r]
        ELSE IF configurationGet(r.configuration, id).role = role
        THEN [rv |-> RAFT_BADROLE, r |-> r]
        ELSE
        LET server_index == configurationIndexOf(r.configuration, id)
            last_index == logLastIndex(r.log)
            r1 == [r EXCEPT !.change = req]
        IN  IF role # RAFT_VOTER \/ progressMatchIndex(r1, server_index) = last_index
            THEN LET old_role == r1.configuration[server_index].role
                     r2 == [r1 EXCEPT !.configuration[server_index].role = role]
                     c == clientChangeConfiguration(r2, req, r2.configuration, fail)
                 IN  IF c.rv # OK
                     THEN [rv |-> c.rv,
                           r |-> [c.r EXCEPT !.configuration[server_index].role = old_role]]
                     ELSE [rv |-> OK, r |-> c.r]
            ELSE LET r2 == [r1 EXCEPT !.promotee_id = id,
                                      !.round_number = 1,
                                      !.round_index = last_index,
                                      !.round_start = r1.now]
                 IN  [rv |-> OK, r |-> replicationProgress(r2, server_index).r]

raft_remove_NoBusyCheck(r, req, id, fail, heap) ==
    LET can == IF r.state # RAFT_LEADER \/ r.transfer # 0 THEN RAFT_NOTLEADER ELSE OK
    IN  IF can # OK THEN [rv |-> can, r |-> r]
        ELSE IF configurationGet(r.configuration, id) = NullServer THEN [rv |-> RAFT_BADID, r |-> r]
        ELSE IF fail = "copy" THEN [rv |-> RAFT_NOMEM, r |-> r]
        ELSE
        LET d == configurationRemove(r.configuration, id)
        IN  IF d.rv # OK THEN [rv |-> d.rv, r |-> r]
            ELSE
            LET c == clientChangeConfiguration(r, req, d.c, fail)
            IN  IF c.rv # OK
                THEN [rv |-> c.rv,
                      r |-> IF c.installed
                            THEN [c.r EXCEPT !.configuration = FreedServers(d.c, heap)]
                            ELSE c.r]
                ELSE [rv |-> OK, r |-> [c.r EXCEPT !.change = req]]

raft_remove(r, req, id, fail, heap) ==
    LET can == membershipCanChangeConfiguration(r)
    IN  IF can # OK THEN [rv |-> can, r |-> r]
        ELSE IF configurationGet(r.configuration, id) = NullServer THEN [rv |-> RAFT_BADID, r |-> r]
        ELSE IF fail = "copy" THEN [rv |-> RAFT_NOMEM, r |-> r]
        ELSE
        LET d == configurationRemove(r.configuration, id)
        IN  IF d.rv # OK THEN [rv |-> d.rv, r |-> r]
            ELSE
            LET c == clientChangeConfiguration(r, req, d.c, fail)
            IN  IF c.rv # OK
                THEN [rv |-> c.rv,
                      r |-> IF c.installed
                            THEN [c.r EXCEPT !.configuration = FreedServers(d.c, heap)]
                            ELSE c.r]
                ELSE [rv |-> OK, r |-> [c.r EXCEPT !.change = req]]

\* The loop of clientSelectTransferee from position i on, transferee being
\* the candidate found so far (0 for NULL).
RECURSIVE SelectTransfereeFrom(_, _, _)
SelectTransfereeFrom(r, i, transferee) ==
    IF i > Len(r.configuration) THEN transferee
    ELSE IF r.configuration[i].id = r.id \/ r.configuration[i].role # RAFT_VOTER
    THEN SelectTransfereeFrom(r, i + 1, transferee)
    ELSE IF progressIsUpToDate(r, i) THEN r.configuration[i].id
    ELSE SelectTransfereeFrom(r, i + 1, r.configuration[i].id)

clientSelectTransferee(r) == SelectTransfereeFrom(r, 1, 0)

raft_transfer(r, req, id, fail) ==
    IF r.state # RAFT_LEADER \/ r.transfer # 0 THEN [rv |-> RAFT_NOTLEADER, r |-> r]
    ELSE
    LET target == IF id = 0 THEN clientSelectTransferee(r) ELSE id
    IN  IF target = 0 THEN [rv |-> RAFT_NOTFOUND, r |-> r]
        ELSE
        LET server == configurationGet(r.configuration, target)
        IN  IF server = NullServer THEN [rv |-> RAFT_BADID, r |-> r]
            ELSE IF server.id = r.id \/ server.role # RAFT_VOTER
            THEN [rv |-> RAFT_BADID, r |-> r]
            ELSE
            LET i == configurationIndexOf(r.configuration, server.id)
                r1 == membershipLeadershipTransferInit(r, req, target)
            IN  IF progressIsUpToDate(r1, i)
                THEN LET st == membershipLeadershipTransferStart(
                                   r1, IF fail = "start" THEN RAFT_NOMEM ELSE OK)
                     IN  IF st.rv # OK
                         THEN [rv |-> st.rv, r |-> [st.r EXCEPT !.transfer = 0]]
                         ELSE [rv |-> OK, r |-> st.r]
                ELSE [rv |-> OK, r |-> r1]

(***************************************************************************)
(* Role conversions (convert.h), modelled from sections 3, 4.4, 4.6 and 8. *)
(***************************************************************************)
\* Every pending client request, the registered change included, fails with
\* not-leader, and the leader state is dropped.
convertClearLeader(r) ==
    [r EXCEPT !.fired = r.fired
                  \o [i \in 1..Len(r.requests) |->
                         [req |-> r.requests[i].req, status |-> RAFT_NOTLEADER]]
                  \o (IF r.change # 0
                      THEN <<[req |-> r.change, status |-> RAFT_NOTLEADER]>> ELSE <<>>),
              !.requests = <<>>, !.change = 0, !.promotee_id = 0,
              !.round_number = 0, !.round_index = 0, !.round_start = 0,
              !.progress = <<>>]

convertToFollower(r) ==
    [(IF r.state = RAFT_LEADER THEN convertClearLeader(r) ELSE r)
        EXCEPT !.state = RAFT_FOLLOWER, !.current_leader = 0, !.votes = {},
               !.election_timer_start = r.now]

\* Increment the term, vote for self, restart the election timer.
convertToCandidate(r) ==
    [r EXCEPT !.state = RAFT_CANDIDATE, !.current_term = r.current_term + 1,
              !.voted_for = r.id, !.votes = {r.id}, !.current_leader = 0,
              !.election_timer_start = r.now]

convertToLeader(r) ==
    [r EXCEPT !.state = RAFT_LEADER, !.votes = {}, !.current_leader = r.id,
              !.progress = progressBuildArray(r),
              !.requests = <<>>, !.change = 0, !.promotee_id = 0,
              !.round_number = 0, !.round_index = 0, !.round_start = 0]

(***************************************************************************)
(* Helpers of the receive handlers (recv.h), modelled from the universal   *)
(* rule of section 4.6.                                                    *)
(***************************************************************************)
\* -1 if the local term is higher, 0 if the terms match, 1 if it is lower.
recvCheckMatchingTerms(r, term) ==
    IF term < r.current_term THEN -1 ELSE IF term > r.current_term THEN 1 ELSE 0

recvBumpCurrentTerm(r, term) ==
    LET r1 == [r EXCEPT !.current_term = term, !.voted_for = 0]
    IN  IF r1.state # RAFT_FOLLOWER THEN convertToFollower(r1) ELSE r1

recvEnsureMatchingTerms(r, term) ==
    LET match == recvCheckMatchingTerms(r, term)
    IN  [rv |-> OK, match |-> match,
         r |-> IF match = 1 THEN recvBumpCurrentTerm(r, term) ELSE r]

\* rv is the outcome of copying the leader's address.
recvUpdateLeader(r, id, rv) ==
    [rv |-> rv, r |-> IF rv = OK THEN [r EXCEPT !.current_leader = id] ELSE r]

(***************************************************************************)
(* Leader-side handling of a result (replication.h), modelled from         *)
(* sections 4.4 and 4.5.                                                   *)
(***************************************************************************)
\* Number of voters known to hold the entry at index n; the leader holds its
\* whole log.
ReplicatedOn(r, n) ==
    {i \in 1..Len(r.configuration) :
        /\ r.configuration[i].role = RAFT_VOTER
        /\ IF r.configuration[i].id = r.id THEN logLastIndex(r.log) >= n
           ELSE r.progress[i].match_index >= n}

replicationQuorum(r) ==
    LET ok == {n \in (r.commit_index + 1)..logLastIndex(r.log) :
                  /\ 2 * Cardinality(ReplicatedOn(r, n)) > configurationVoterCount(r.configuration)
                  /\ logTermOf(r.log, n) = r.current_term}
    IN  IF ok = {} THEN r.commit_index ELSE CHOOSE n \in ok : \A m \in ok : m <= n

\* Apply the entries up to the commit index, in order: the requests they
\* belong to complete, a configuration entry becomes the committed
\* configuration and completes the registered change.
replicationApply(r) ==
    LET done == {i \in 1..Len(r.requests) : r.requests[i].index <= r.commit_index}
        conf == r.configuration_uncommitted_index # 0
                /\ r.configuration_uncommitted_index <= r.commit_index
    IN  [r EXCEPT !.last_applied = r.commit_index,
                  !.fired = r.fired
                      \o [i \in 1..Cardinality(done) |->
                             [req |-> r.requests[i].req, status |-> OK]]
                      \o (IF conf /\ r.change # 0
                          THEN <<[req |-> r.change, status |-> OK]>> ELSE <<>>),
                  !.requests = SubSeq(r.requests, Cardinality(done) + 1, Len(r.requests)),
                  !.change = IF conf THEN 0 ELSE r.change,
                  !.configuration_index =
                      IF conf THEN r.configuration_uncommitted_index
                      ELSE r.configuration_index,
                  !.configuration_uncommitted_index =
                      IF conf THEN 0 ELSE r.configuration_uncommitted_index]

\* The election timeout, in ticks of the clock.
ElectionTimeout == 2

\* A result of the promotee arrived: the round is complete once the promotee
\* holds the round's index; a round that completed within the election
\* timeout ends the catch-up, a slower one is followed by another round up to
\* the current last index (section 4.4).
membershipUpdateCatchUpRound(r) ==
    LET i == configurationIndexOf(r.configuration, r.promotee_id)
    IN  IF progressMatchIndex(r, i) < r.round_index THEN [caught_up |-> FALSE, r |-> r]
        ELSE IF r.now - r.round_start < ElectionTimeout
        THEN [caught_up |-> TRUE,
              r |-> [r EXCEPT !.round_number = 0, !.round_index = 0, !.round_start = 0]]
        ELSE [caught_up |-> FALSE,
              r |-> [r EXCEPT !.round_number = r.round_number + 1,
                              !.round_index = logLastIndex(r.log),
                              !.round_start = r.now]]

\* The promotee caught up: it becomes a voter in a configuration entry that
\* is appended and takes effect at once.
triggerActualPromotion(r) ==
    LET i == configurationIndexOf(r.configuration, r.promotee_id)
        configuration == [r.configuration EXCEPT ![i].role = RAFT_VOTER]
        index == logLastIndex(r.log) + 1
        r1 == [r EXCEPT !.configuration = configuration,
                        !.log = logAppendConfiguration(r.log, r.current_term, configuration)]
    IN  [replicationTrigger(r1, index, OK).r
            EXCEPT !.promotee_id = 0, !.configuration_uncommitted_index = index]

replicationUpdate(r, server, result) ==
    LET i == configurationIndexOf(r.configuration, server.id)
        p == r.progress[i]
        q == IF result.rejected > 0
             THEN [p EXCEPT !.state = PROGRESS__PROBE,
                            !.next_index = Max(Min(p.next_index - 1, result.last_log_index + 1),
                                               p.match_index + 1)]
             ELSE [p EXCEPT !.match_index = Max(p.match_index, result.last_log_index),
                            !.next_index = Max(p.match_index, result.last_log_index) + 1,
                            !.state = IF p.state = PROGRESS__PROBE
                                      THEN PROGRESS__PIPELINE ELSE p.state]
        r1 == [r EXCEPT !.progress[i] = q]
        cu == IF result.rejected = 0 /\ r1.promotee_id # 0 /\ r1.promotee_id = server.id
              THEN membershipUpdateCatchUpRound(r1)
              ELSE [caught_up |-> FALSE, r |-> r1]
        rp == IF cu.caught_up THEN triggerActualPromotion(cu.r) ELSE cu.r
        r2 == [rp EXCEPT !.commit_index = Max(rp.commit_index, replicationQuorum(rp))]
    IN  [rv |-> OK, r |-> replicationApply(r2)]

(***************************************************************************)
(* recv_append_entries_result.c                                            *)
(***************************************************************************)
recvAppendEntriesResult_UpdateFirst(r, id, result) ==
    IF r.state # RAFT_LEADER THEN [rv |-> OK, r |-> r]
    ELSE
    LET server == configurationGet(r.configuration, id)
        ru == IF server = NullServer \/ result.term < r.current_term THEN [rv |-> OK, r |-> r]
              ELSE replicationUpdate(r, server, result)
        em == recvEnsureMatchingTerms(ru.r, result.term)
    IN  [rv |-> em.rv, r |-> em.r]

\* recvAppendEntriesResult without the return of lines 41-45.
recvAppendEntriesResult_StaleTerm(r, id, result) ==
    IF r.state # RAFT_LEADER THEN [rv |-> OK, r |-> r]
    ELSE
    LET em == recvEnsureMatchingTerms(r, result.term)
    IN  IF em.rv # OK THEN [rv |-> em.rv, r |-> em.r]
        \* If we have stepped down, abort here.
        ELSE IF em.match > 0 THEN [rv |-> OK, r |-> em.r]
        ELSE
        \* Ignore responses from servers that have been removed
        LET server == configurationGet(em.r.configuration, id)
        IN  IF server = NullServer THEN [rv |-> OK, r |-> em.r]
            ELSE replicationUpdate(em.r, server, result)

recvAppendEntriesResult(r, id, result) ==
    IF r.state # RAFT_LEADER THEN [rv |-> OK, r |-> r]
    ELSE
    LET em == recvEnsureMatchingTerms(r, result.term)
    IN  IF em.rv # OK THEN [rv |-> em.rv, r |-> em.r]
        ELSE IF em.match < 0 THEN [rv |-> OK, r |-> em.r]
        \* If we have stepped down, abort here.
        ELSE IF em.match > 0 THEN [rv |-> OK, r |-> em.r]
        ELSE
        \* Ignore responses from servers that have been removed
        LET server == configurationGet(em.r.configuration, id)
        IN  IF server = NullServer THEN [rv |-> OK, r |-> em.r]
            ELSE replicationUpdate(em.r, server, result)

(***************************************************************************)
(* recv_install_snapshot.c                                                 *)
(***************************************************************************)
\* What stands for "no snapshot is being installed" and "no reply was sent".
NoSnapshot == [term |-> 0, last_index |-> 0, last_term |-> 0, conf |-> <<>>, conf_index |-> 0]

NoReply == [term |-> 0, rejected |-> 0, last_log_index |-> 0, to |-> 0]

\* The state after the snapshot of args has been installed (section 4.5).
SnapshotInstalled(r, args) ==
    [r EXCEPT !.log = logSnapshotRestored(r.log, args.last_index, args.last_term),
              !.commit_index = args.last_index,
              !.last_applied = args.last_index,
              !.configuration = args.conf,
              !.configuration_index = args.conf_index,
              !.configuration_uncommitted_index = 0,
              !.installing = NoSnapshot]

\* Modelled from section 4.5: a snapshot that is already covered is
\* acknowledged and ignored; otherwise it is installed, at once (mode "sync")
\* or behind a barrier (mode "async", completed by the snapshot store); rv is
\* what the snapshot store answers.
replicationInstallSnapshot(r, args, mode, rv) ==
    IF r.installing # NoSnapshot
    THEN [rv |-> OK, rejected |-> args.last_index, async |-> TRUE, r |-> r]
    ELSE IF args.last_index <= r.last_applied
    THEN [rv |-> OK, rejected |-> 0, async |-> FALSE, r |-> r]
    ELSE IF rv # OK
    THEN [rv |-> rv, rejected |-> args.last_index, async |-> FALSE, r |-> r]
    ELSE IF mode = "async"
    THEN [rv |-> OK, rejected |-> args.last_index, async |-> TRUE,
          r |-> [r EXCEPT !.installing = args]]
    ELSE [rv |-> OK, rejected |-> 0, async |-> FALSE, r |-> SnapshotInstalled(r, args)]

\* recvInstallSnapshot without the echo of lines 81-84.
recvInstallSnapshot_NoEcho(r, id, args, mode, fail) ==
    LET em == recvEnsureMatchingTerms(r, args.term)
        r0 == em.r
        Reply(rr, rejected, last_log_index) ==
            IF fail = "req" THEN [rv |-> RAFT_NOMEM, r |-> rr, reply |-> NoReply]
            ELSE IF fail = "send" THEN [rv |-> RAFT_IOERR, r |-> rr, reply |-> NoReply]
            ELSE [rv |-> OK, r |-> rr,
                  reply |-> [term |-> rr.current_term, rejected |-> rejected,
                             last_log_index |-> last_log_index, to |-> id]]
    IN  IF em.rv # OK THEN [rv |-> em.rv, r |-> r0, reply |-> NoReply]
        ELSE IF em.match < 0 THEN Reply(r0, args.last_index, logLastIndex(r.log))
        ELSE
        LET r1 == IF r0.state = RAFT_CANDIDATE THEN convertToFollower(r0) ELSE r0
            ul == recvUpdateLeader(r1, id, IF fail = "leader" THEN RAFT_NOMEM ELSE OK)
        IN  IF ul.rv # OK THEN [rv |-> ul.rv, r |-> ul.r, reply |-> NoReply]
            ELSE
            LET r2 == [ul.r EXCEPT !.election_timer_start = ul.r.now]
                is == replicationInstallSnapshot(r2, args, mode,
                                                 IF fail = "install" THEN RAFT_IOERR ELSE OK)
            IN  IF is.rv # OK THEN [rv |-> is.rv, r |-> is.r, reply |-> NoReply]
                ELSE IF is.async THEN [rv |-> OK, r |-> is.r, reply |-> NoReply]
                ELSE Reply(is.r, is.rejected,
                           logLastIndex(r.log))

\* recvInstallSnapshot without the assignment of line 68.
recvInstallSnapshot_KeepsTimer(r, id, args, mode, fail) ==
    LET em == recvEnsureMatchingTerms(r, args.term)
        r0 == em.r
        Reply(rr, rejected, last_log_index) ==
            IF fail = "req" THEN [rv |-> RAFT_NOMEM, r |-> rr, reply |-> NoReply]
            ELSE IF fail = "send" THEN [rv |-> RAFT_IOERR, r |-> rr, reply |-> NoReply]
            ELSE [rv |-> OK, r |-> rr,
                  reply |-> [term |-> rr.current_term, rejected |-> rejected,
                             last_log_index |-> last_log_index, to |-> id]]
    IN  IF em.rv # OK THEN [rv |-> em.rv, r |-> r0, reply |-> NoReply]
        ELSE IF em.match < 0 THEN Reply(r0, args.last_index, logLastIndex(r.log))
        ELSE
        LET r1 == IF r0.state = RAFT_CANDIDATE THEN convertToFollower(r0) ELSE r0
            ul == recvUpdateLeader(r1, id, IF fail = "leader" THEN RAFT_NOMEM ELSE OK)
        IN  IF ul.rv # OK THEN [rv |-> ul.rv, r |-> ul.r, reply |-> NoReply]
            ELSE
            LET r2 == ul.r
                is == replicationInstallSnapshot(r2, args, mode,
                                                 IF fail = "install" THEN RAFT_IOERR ELSE OK)
            IN  IF is.rv # OK THEN [rv |-> is.rv, r |-> is.r, reply |-> NoReply]
                ELSE IF is.async THEN [rv |-> OK, r |-> is.r, reply |-> NoReply]
                ELSE Reply(is.r, is.rejected,
                           IF is.rejected = 0 THEN args.last_index
                           ELSE logLastIndex(r.log))

\* fail: "leader" (recvUpdateLeader), "install" (replicationInstallSnapshot),
\* "req" (raft_malloc of the send request), "send" (io->send).  reply is the
\* AppendEntriesResult handed to io->send, 0 if none was.
recvInstallSnapshot(r, id, args, mode, fail) ==
    LET em == recvEnsureMatchingTerms(r, args.term)
        r0 == em.r
        Reply(rr, rejected, last_log_index) ==
            IF fail = "req" THEN [rv |-> RAFT_NOMEM, r |-> rr, reply |-> NoReply]
            ELSE IF fail = "send" THEN [rv |-> RAFT_IOERR, r |-> rr, reply |-> NoReply]
            ELSE [rv |-> OK, r |-> rr,
                  reply |-> [term |-> rr.current_term, rejected |-> rejected,
                             last_log_index |-> last_log_index, to |-> id]]
    IN  IF em.rv # OK THEN [rv |-> em.rv, r |-> r0, reply |-> NoReply]
        ELSE IF em.match < 0 THEN Reply(r0, args.last_index, logLastIndex(r.log))
        ELSE
        LET r1 == IF r0.state = RAFT_CANDIDATE THEN convertToFollower(r0) ELSE r0
            ul == recvUpdateLeader(r1, id, IF fail = "leader" THEN RAFT_NOMEM ELSE OK)
        IN  IF ul.rv # OK THEN [rv |-> ul.rv, r |-> ul.r, reply |-> NoReply]
            ELSE
            LET r2 == [ul.r EXCEPT !.election_timer_start = ul.r.now]
                is == replicationInstallSnapshot(r2, args, mode,
                                                 IF fail = "install" THEN RAFT_IOERR ELSE OK)
            IN  IF is.rv # OK THEN [rv |-> is.rv, r |-> is.r, reply |-> NoReply]
                ELSE IF is.async THEN [rv |-> OK, r |-> is.r, reply |-> NoReply]
                ELSE Reply(is.r, is.rejected,
                           IF is.rejected = 0 THEN args.last_index
                           ELSE logLastIndex(r.log))

(***************************************************************************)
(* A single replica and its environment: the clients, the messages the     *)
(* transport delivers, the outcome of elections.                           *)
(***************************************************************************)
\* Terms of the run.
MaxTerm == 2
\* Last index of the log.
MaxLog == 3
\* Messages the transport delivers to the replica in a run.
MaxMsgs == 2
\* Steps the environment makes fail in a run.
MaxFailures == 1
\* Servers 1..3 are the bootstrap configuration; server 4 may be added.
ServerIds == 1..4
\* The servers that client requests name: the replica itself, another voter,
\* a server that is not in the bootstrap configuration.
ClientIds == {1, 2, 4}

BootstrapConfiguration ==
    [i \in 1..3 |-> [id |-> i, role |-> RAFT_VOTER]]

\* A replica after raft_bootstrap and raft_start: the bootstrap configuration
\* is the committed entry at index 1.
RaftInit(id, configuration) ==
    [id |-> id, state |-> RAFT_FOLLOWER, current_term |-> 1, voted_for |-> 0,
     log |-> logAppendConfiguration(EmptyLog, 1, configuration),
     commit_index |-> 1, last_applied |-> 1,
     configuration |-> configuration,
     configuration_index |-> 1, configuration_uncommitted_index |-> 0,
     transfer |-> 0, current_leader |-> 0, election_timer_start |-> 0, votes |-> {},
     progress |-> <<>>, requests |-> <<>>, change |-> 0, promotee_id |-> 0,
     round_number |-> 0, round_index |-> 0, round_start |-> 0,
     installing |-> NoSnapshot, now |-> 0, fired |-> <<>>]

\* What the entry point that ran last was, was given and returned.
Ret(op, rv, fail, term) == [op |-> op, rv |-> rv, fail |-> fail, term |-> term]

NoRet == Ret("none", OK, "none", 0)

\* An entry point starts with no callback invoked.
Entered(r) == [r EXCEPT !.fired = <<>>]

\* The request object of a new client request: one that is not queued.
FreshReq(r) ==
    CHOOSE q \in 1..(Len(r.requests) + 2) :
        /\ q # r.change
        /\ \A i \in 1..Len(r.requests) : r.requests[i].req # q
        /\ \A p \in 1..(q - 1) : p = r.change \/ \E i \in 1..Len(r.requests) : r.requests[i].req = p

CanSubmit == logLastIndex(raft.log) < MaxLog

\* The environment makes at most MaxFailures steps fail in a run.
Failing(fail) ==
    /\ fail # "none" => env.n_failures < MaxFailures
    /\ env' = [env EXCEPT !.n_failures = IF fail = "none" THEN @ ELSE @ + 1]

ReplicaTimeout ==
    /\ raft.state \in {RAFT_FOLLOWER, RAFT_CANDIDATE}
    /\ raft.current_term < MaxTerm
    /\ raft.id \in configurationVoters(raft.configuration)
    /\ raft.installing = NoSnapshot
    /\ raft' = convertToCandidate(Entered(raft))
    /\ ret' = Ret("timeout", OK, "none", 0)
    /\ UNCHANGED <<uv, cluster, env>>

\* The candidate collected the votes of a majority.
ReplicaElected ==
    /\ raft.state = RAFT_CANDIDATE
    /\ raft' = convertToLeader(Entered(raft))
    /\ ret' = Ret("elected", OK, "none", 0)
    /\ UNCHANGED <<uv, cluster, env>>

ClientApply ==
    /\ CanSubmit
    /\ \E n \in 1..Min(2, MaxLog - logLastIndex(raft.log)),
          fail \in {"none", "append", "trigger"} :
          LET req == FreshReq(raft)
              c == raft_apply(Entered(raft), req, [i \in 1..n |-> req], fail)
          IN  /\ Failing(fail)
              /\ raft' = c.r
              /\ ret' = Ret("apply", c.rv, fail, 0)
    /\ UNCHANGED <<uv, cluster>>

ClientBarrier ==
    /\ CanSubmit
    /\ \E fail \in {"none", "buf", "append", "trigger"} :
          LET c == raft_barrier(Entered(raft), FreshReq(raft), fail)
          IN  /\ Failing(fail)
              /\ raft' = c.r
              /\ ret' = Ret("barrier", c.rv, fail, 0)
    /\ UNCHANGED <<uv, cluster>>

\* The failing step of a membership change and, where the servers array is
\* freed while in use, what it reads as afterwards.
ChangeFailures ==
    {<<f, "intact">> : f \in {"none", "copy", "append", "rebuild", "trigger"}}
        \cup {<<"trigger", "reused">>}

ClientAdd ==
    /\ CanSubmit
    /\ \E id \in ClientIds, fh \in ChangeFailures :
          LET c == raft_add(Entered(raft), FreshReq(raft), id, fh[1], fh[2])
          IN  /\ Failing(fh[1])
              /\ raft' = c.r
              /\ ret' = Ret("add", c.rv, fh[1], 0)
    /\ UNCHANGED <<uv, cluster>>

\* What a raft_assign was given and returned.
AssignRet(rv, fail, id, role) ==
    [op |-> IF role \in ValidRoles THEN "assign" ELSE "assign_bad_role",
     rv |-> rv, fail |-> fail, term |-> 0, id |-> id, role |-> role]

ClientAssign ==
    /\ CanSubmit
    /\ \E id \in ClientIds, role \in ValidRoles \cup {"none"},
          fail \in {"none", "append", "trigger"} :
          LET c == raft_assign(Entered(raft), FreshReq(raft), id, role, fail)
          IN  /\ Failing(fail)
              /\ raft' = c.r
              /\ ret' = AssignRet(c.rv, fail, id, role)
    /\ UNCHANGED <<uv, cluster>>

ClientRemove ==
    /\ CanSubmit
    /\ \E id \in ClientIds, fh \in ChangeFailures :
          LET c == raft_remove(Entered(raft), FreshReq(raft), id, fh[1], fh[2])
          IN  /\ Failing(fh[1])
              /\ raft' = c.r
              /\ ret' = Ret("remove", c.rv, fh[1], 0)
    /\ UNCHANGED <<uv, cluster>>

\* What a raft_transfer was given (id 0 for "pick a target") and returned.
TransferRet(rv, fail, id) ==
    [op |-> "transfer", rv |-> rv, fail |-> fail, term |-> 0, id |-> id]

ClientTransfer ==
    /\ CanSubmit
    /\ \E id \in {0} \cup ClientIds, fail \in {"none", "start"} :
          LET c == raft_transfer(Entered(raft), FreshReq(raft), id, fail)
          IN  /\ Failing(fail)
              /\ raft' = c.r
              /\ ret' = TransferRet(c.rv, fail, id)
    /\ UNCHANGED <<uv, cluster>>

\* The transfer ended (the target took over, or the transfer timed out).
TransferEnd ==
    /\ raft.transfer # 0
    /\ raft' = [Entered(raft) EXCEPT !.transfer = 0]
    /\ ret' = Ret("transfer_end", OK, "none", 0)
    /\ UNCHANGED <<uv, cluster, env>>

\* The transport delivers an AppendEntriesResult.  A result that reports
\* success acknowledges entries of the receiver's log.
RecvAppendEntriesResult ==
    /\ env.n_msgs < MaxMsgs
    /\ env' = [env EXCEPT !.n_msgs = env.n_msgs + 1]
    /\ \E id \in ServerIds \ {raft.id}, term \in 1..(MaxTerm + 1),
          last_log_index \in 0..logLastIndex(raft.log), rejected \in BOOLEAN :
          LET result == [term |-> term,
                         rejected |-> IF rejected THEN last_log_index + 1 ELSE 0,
                         last_log_index |-> last_log_index]
              c == recvAppendEntriesResult(Entered(raft), id, result)
          IN  /\ raft' = c.r
              /\ ret' = Ret("append_entries_result", c.rv, "none", term)
    /\ UNCHANGED <<uv, cluster>>

\* What fails in the handling of an InstallSnapshot, and whether the
\* snapshot store installs at once or behind a barrier.
InstallFailures ==
    {<<"sync", f>> : f \in {"none", "leader", "install", "req", "send"}}
        \cup {<<"async", "none">>}

\* What a delivered InstallSnapshot was given and returned, and the reply it
\* handed to io->send (NoReply if none).
InstallRet(rv, fail, args, reply) ==
    [op |-> "install_snapshot", rv |-> rv, fail |-> fail, term |-> args.term,
     last_index |-> args.last_index, reply |-> reply]

\* The transport delivers an InstallSnapshot.  No leader receives one of its
\* own term (recvInstallSnapshot asserts it).
RecvInstallSnapshot ==
    /\ env.n_msgs < MaxMsgs
    /\ \E id \in {2}, term \in 1..(MaxTerm + 1), last_index \in 1..MaxLog,
          mf \in InstallFailures :
          LET args == [term |-> term, last_index |-> last_index, last_term |-> 1,
                       conf |-> BootstrapConfiguration, conf_index |-> 1]
              c == recvInstallSnapshot(Entered(raft), id, args, mf[1], mf[2])
          IN  /\ ~(raft.state = RAFT_LEADER /\ term = raft.current_term)
              /\ mf[2] # "none" => env.n_failures < MaxFailures
              /\ env' = [n_msgs |-> env.n_msgs + 1,
                         n_failures |-> IF mf[2] = "none" THEN env.n_failures
                                        ELSE env.n_failures + 1]
              /\ raft' = c.r
              /\ ret' = InstallRet(c.rv, mf[2], args, c.reply)
    /\ UNCHANGED <<uv, cluster>>

\* The snapshot store completed the installation started by an InstallSnapshot.
InstallSnapshotDone ==
    /\ raft.installing # NoSnapshot
    /\ raft' = SnapshotInstalled(Entered(raft), raft.installing)
    /\ ret' = Ret("install_snapshot_done", OK, "none", 0)
    /\ UNCHANGED <<uv, cluster, env>>

ReplicaInit ==
    /\ raft = RaftInit(1, BootstrapConfiguration)
    /\ ret = NoRet
    /\ uv = 0
    /\ cluster = 0
    /\ env = [n_msgs |-> 0, n_failures |-> 0]

ReplicaNext ==
    \/ ReplicaTimeout
    \/ ReplicaElected
    \/ ClientApply
    \/ ClientBarrier
    \/ ClientAdd
    \/ ClientAssign
    \/ ClientRemove
    \/ ClientTransfer
    \/ TransferEnd
    \/ RecvAppendEntriesResult
    \/ RecvInstallSnapshot
    \/ InstallSnapshotDone

ReplicaSpec == ReplicaInit /\ [][ReplicaNext]_vars


(***************************************************************************)
(* Properties of the receive handlers.                                     *)
(***************************************************************************)
RecvOps == {"append_entries_result", "install_snapshot"}

\* C4: a replica in any role that receives a message (AppendEntriesResult or
\* InstallSnapshot) whose term is higher than its current term adopts that
\* term, clears its vote and is a follower when the handler returns.
HigherTermForcesFollower ==
    [][(ret'.op \in RecvOps /\ ret'.term > raft.current_term)
        => /\ raft'.current_term = ret'.term
           /\ raft'.voted_for = 0
           /\ raft'.state = RAFT_FOLLOWER]_vars

\* C5: a leader that receives a message with a higher term is a follower in
\* that term with no vote when the handler returns, every request that was
\* pending has failed with not-leader, and an AppendEntriesResult has
\* advanced neither the progress table nor the commit index.
LeaderStepsDownOnHigherTerm ==
    [][(raft.state = RAFT_LEADER /\ ret'.op \in RecvOps /\ ret'.term > raft.current_term)
        => /\ raft'.state = RAFT_FOLLOWER
           /\ raft'.current_term = ret'.term
           /\ raft'.voted_for = 0
           /\ raft'.requests = <<>>
           /\ raft'.change = 0
           /\ \A i \in 1..Len(raft.requests) :
                 /\ i <= Len(raft'.fired)
                 /\ raft'.fired[i] = [req |-> raft.requests[i].req,
                                      status |-> RAFT_NOTLEADER]
           /\ \A i \in 1..Len(raft'.fired) : raft'.fired[i].status = RAFT_NOTLEADER
           /\ raft'.progress = <<>>
           /\ ret'.op = "append_entries_result"
                 => /\ raft'.commit_index = raft.commit_index
                    /\ raft'.last_applied = raft.last_applied
                    /\ raft'.log = raft.log]_vars

\* A leader with a pending request has stepped down on an AppendEntriesResult.
LeaderSteppedDown ==
    /\ ret.op = "append_entries_result"
    /\ ret.term = raft.current_term
    /\ raft.state = RAFT_FOLLOWER
    /\ raft.voted_for = 0
    /\ raft.fired # <<>>
    /\ \A i \in 1..Len(raft.fired) : raft.fired[i].status = RAFT_NOTLEADER

(***************************************************************************)
(* Properties of the client requests.                                      *)
(***************************************************************************)
ChangeOps == {"add", "assign", "remove"}

ClientOps == {"apply", "barrier", "transfer"} \cup ChangeOps

\* A membership change is registered, uncommitted or catching up on leader r.
ChangeInFlight(r) ==
    /\ r.state = RAFT_LEADER
    /\ \/ r.change # 0
       \/ r.configuration_uncommitted_index # 0
       \/ r.promotee_id # 0

\* The call left the log, the configuration and the progress table alone.
ChangeFrame ==
    /\ raft'.log = raft.log
    /\ raft'.configuration = raft.configuration
    /\ raft'.progress = raft.progress

\* C6, as stated: raft_add, raft_assign or raft_remove invoked on a leader
\* while an earlier change is in flight fails with conf-busy, appends no log
\* entry and leaves configuration and progress unchanged.
ChangeInFlightIsRefusedBusy ==
    [][(ret'.op \in ChangeOps \cup {"assign_bad_role"} /\ ChangeInFlight(raft))
        => (ret'.rv = RAFT_CANTCHANGE /\ ChangeFrame)]_vars

\* C6, amended: such a call fails and changes nothing; the error is bad-role
\* for a raft_assign with an invalid role, not-leader while a leadership
\* transfer is in progress, conf-busy otherwise.
ChangeInFlightIsRefused ==
    [][(ret'.op \in ChangeOps \cup {"assign_bad_role"} /\ ChangeInFlight(raft))
        => /\ ChangeFrame
           /\ raft'.change = raft.change
           /\ raft'.promotee_id = raft.promotee_id
           /\ raft'.configuration_uncommitted_index = raft.configuration_uncommitted_index
           /\ ret'.rv = IF ret'.op = "assign_bad_role" THEN RAFT_BADROLE
                        ELSE IF raft.transfer # 0 THEN RAFT_NOTLEADER
                        ELSE RAFT_CANTCHANGE]_vars

\* A change was refused as busy behind an uncommitted configuration entry.
ChangeRefusedBusy ==
    /\ ret.op \in ChangeOps
    /\ ret.rv = RAFT_CANTCHANGE
    /\ raft.state = RAFT_LEADER
    /\ raft.configuration_uncommitted_index = logLastIndex(raft.log)

\* C7: a membership change that fails after its configuration entry was
\* appended (in the rebuild of the progress array or in the replication
\* trigger) returns with the log, the configuration and the progress table
\* as they were before the call.
FailedChangeIsRolledBack ==
    [][(ret'.op \in ChangeOps /\ ret'.rv # OK /\ ret'.fail \in {"rebuild", "trigger"})
        => ChangeFrame]_vars

\* C8: raft_apply or raft_barrier whose replication trigger fails returns with
\* the log as it was before the call and without its request in the queue of
\* pending requests; the append and the rollback are one step of the replica.
FailedApplyIsRolledBack ==
    [][(ret'.op \in {"apply", "barrier"} /\ ret'.fail = "trigger" /\ ret'.rv # OK)
        => /\ logLastIndex(raft'.log) = logLastIndex(raft.log)
           /\ raft'.log = raft.log
           /\ raft'.requests = raft.requests
           /\ raft'.fired = <<>>]_vars

\* The replication trigger of a raft_apply failed on a leader that already
\* had a request pending.
ApplyTriggerFailed ==
    /\ ret.op = "apply"
    /\ ret.fail = "trigger"
    /\ ret.rv = RAFT_IOERR
    /\ raft.state = RAFT_LEADER
    /\ raft.requests # <<>>

\* C9: a client operation on a replica that is not leader, or on a leader
\* with a leadership transfer in progress, returns not-leader and leaves the
\* log, the pending requests, the configuration and the transfer alone.
NotLeaderIsRefused ==
    [][(ret'.op \in ClientOps /\ (raft.state # RAFT_LEADER \/ raft.transfer # 0))
        => /\ ret'.rv = RAFT_NOTLEADER
           /\ raft'.log = raft.log
           /\ raft'.requests = raft.requests
           /\ raft'.configuration = raft.configuration
           /\ raft'.transfer = raft.transfer
           /\ raft'.fired = <<>>]_vars

\* A raft_apply was refused by a leader that is transferring leadership.
RefusedDuringTransfer ==
    /\ ret.op = "apply"
    /\ ret.rv = RAFT_NOTLEADER
    /\ raft.state = RAFT_LEADER
    /\ raft.transfer # 0

\* The entries of log a are the first entries of log b, behind the same
\* snapshot.
IsLogPrefix(a, b) ==
    /\ a.snapshot_last_index = b.snapshot_last_index
    /\ a.snapshot_last_term = b.snapshot_last_term
    /\ Len(a.entries) <= Len(b.entries)
    /\ SubSeq(b.entries, 1, Len(a.entries)) = a.entries

\* C10: no step of a leader changes or removes an entry that its log held
\* before the step; what a failing client call removes is what that call
\* appended.
LeaderAppendOnly ==
    [][raft.state = RAFT_LEADER
        => IF raft'.state = RAFT_LEADER \/ ret'.op = "append_entries_result"
           THEN IsLogPrefix(raft.log, raft'.log)
           ELSE ret'.op = "install_snapshot"]_vars

\* A failing raft_barrier rolled back its entry on a leader whose log holds
\* entries of its own term.
LeaderRolledBackOwnEntry ==
    /\ ret.op = "barrier"
    /\ ret.fail = "trigger"
    /\ ret.rv = RAFT_IOERR
    /\ raft.state = RAFT_LEADER
    /\ logLastIndex(raft.log) > 1
    /\ logLastTerm(raft.log) = raft.current_term

(***************************************************************************)
(* A cluster of replicas.  The election and the follower side of           *)
(* replication (election.h, recv_request_vote.c, recv_append_entries.c,    *)
(* start.c) are modelled from sections 3, 4.5, 4.6 and 5; the leader side  *)
(* is the client requests and recvAppendEntriesResult above.  A request    *)
(* and its reply are one step: a message that is lost is a step that is    *)
(* not taken.                                                              *)
(***************************************************************************)
\* Terms and log indices of a cluster run.
MaxClusterTerm == 4
MaxClusterLog == 3
\* The servers 1..NumCampaigners are those whose election timer fires, and
\* that crash, in a cluster run.
NumCampaigners == 2
Campaigners == 1..NumCampaigners

\* The servers that clients have removed in a cluster run.
Removed == ServerIds \ Campaigners
\* No message passes between the campaigners in a cluster run: each of them
\* reaches the other servers only.
Reachable(i, j) == i # j /\ ~(i \in Campaigners /\ j \in Campaigners)

ClusterConfiguration ==
    [i \in 1..4 |-> [id |-> i, role |-> RAFT_VOTER]]

\* The callbacks of the step have run.
Settled(r) == [r EXCEPT !.fired = <<>>]

\* The candidate holds the votes of a majority of the voters of its
\* configuration.
electionTally(r) ==
    2 * Cardinality(r.votes \cap configurationVoters(r.configuration))
        > configurationVoterCount(r.configuration)

\* Start an election; a candidate that is the only voter wins at once.
electionStart(r) ==
    LET c == convertToCandidate(r)
    IN  IF electionTally(c) THEN convertToLeader(c) ELSE c

\* Grant the vote iff the candidate's log is at least as up-to-date as ours
\* and we have not voted for another server in this term.
recvRequestVote(r, id, args) ==
    LET em == recvEnsureMatchingTerms(r, args.term)
        r0 == em.r
        uptodate == \/ args.last_log_term > logLastTerm(r0.log)
                    \/ /\ args.last_log_term = logLastTerm(r0.log)
                       /\ args.last_log_index >= logLastIndex(r0.log)
        free == r0.voted_for = 0 \/ r0.voted_for = args.candidate_id
        grant == em.match >= 0 /\ uptodate /\ free
    IN  [r |-> IF grant THEN [r0 EXCEPT !.voted_for = args.candidate_id,
                                        !.election_timer_start = r0.now]
               ELSE r0,
         result |-> [term |-> r0.current_term, vote_granted |-> grant]]

recvRequestVoteResult(r, id, result) ==
    LET em == recvEnsureMatchingTerms(r, result.term)
    IN  IF em.match # 0 \/ em.r.state # RAFT_CANDIDATE \/ ~result.vote_granted THEN em.r
        ELSE LET r1 == [em.r EXCEPT !.votes = em.r.votes \cup {id}]
             IN  IF electionTally(r1) THEN convertToLeader(r1) ELSE r1

\* Index of the last configuration entry of the log at or below index n,
\* 0 if there is none.
LastConfigurationIndex(l, n) ==
    LET is == {i \in 1..Min(n, logLastIndex(l)) : logHas(l, i) /\ logGet(l, i).type = RAFT_CHANGE}
    IN  IF is = {} THEN 0 ELSE CHOOSE i \in is : \A j \in is : j <= i

\* The configuration of a replica follows its log: the last configuration
\* entry is the active one, committed or not.
membershipFollowLog(r) ==
    LET last == LastConfigurationIndex(r.log, logLastIndex(r.log))
        committed == LastConfigurationIndex(r.log, r.commit_index)
    IN  [r EXCEPT !.configuration = IF last = 0 THEN r.configuration
                                    ELSE logGet(r.log, last).data,
                  !.configuration_index = IF committed = 0 THEN r.configuration_index
                                          ELSE committed,
                  !.configuration_uncommitted_index =
                      IF last > r.commit_index THEN last ELSE 0]

\* The messages a leader and a candidate send to server id.
AppendEntriesArgs(r, id) ==
    LET next == r.progress[configurationIndexOf(r.configuration, id)].next_index
    IN  [term |-> r.current_term,
         prev_log_index |-> next - 1,
         prev_log_term |-> logTermOf(r.log, next - 1),
         entries |-> [k \in 1..(logLastIndex(r.log) - next + 1) |-> logGet(r.log, next + k - 1)],
         leader_commit |-> r.commit_index]

RequestVoteArgs(r) ==
    [term |-> r.current_term, candidate_id |-> r.id,
     last_log_index |-> logLastIndex(r.log), last_log_term |-> logLastTerm(r.log)]

\* The first position of args.entries that the log does not hold already
\* (an entry of another term at its index, or none), Len + 1 if it holds all.
FirstNewEntry(l, args) ==
    LET n == Len(args.entries)
        new == {k \in 1..n : logTermOf(l, args.prev_log_index + k) # args.entries[k].term
                             \/ ~logHas(l, args.prev_log_index + k)}
    IN  IF new = {} THEN n + 1 ELSE CHOOSE k \in new : \A j \in new : k <= j

\* Reject a stale leader and a log that does not hold the previous entry;
\* otherwise drop what conflicts, append what is new, follow the leader's
\* commit index and apply.
recvAppendEntries(r, id, args) ==
    LET em == recvEnsureMatchingTerms(r, args.term)
        r0 == em.r
        Reply(rr, rejected) ==
            [r |-> rr, result |-> [term |-> rr.current_term, rejected |-> rejected,
                                   last_log_index |-> logLastIndex(rr.log)]]
    IN  IF em.match < 0 THEN Reply(r0, args.prev_log_index)
        ELSE
        LET r1 == IF r0.state = RAFT_CANDIDATE THEN convertToFollower(r0) ELSE r0
            r2 == [recvUpdateLeader(r1, id, OK).r EXCEPT !.election_timer_start = r1.now]
        IN  IF logTermOf(r2.log, args.prev_log_index) # args.prev_log_term
               \/ args.prev_log_index > logLastIndex(r2.log)
            THEN Reply(r2, args.prev_log_index)
            ELSE
            LET k == FirstNewEntry(r2.log, args)
                l1 == IF k > Len(args.entries) THEN r2.log
                      ELSE [logTruncate(r2.log, args.prev_log_index + k)
                               EXCEPT !.entries = @ \o SubSeq(args.entries, k, Len(args.entries))]
                last_new == args.prev_log_index + Len(args.entries)
                commit == Max(r2.commit_index, Min(args.leader_commit, last_new))
                r3 == membershipFollowLog([r2 EXCEPT !.log = l1, !.commit_index = commit,
                                                      !.last_applied = commit])
            IN  Reply(r3, 0)

\* A replica started again on its durable state: term, vote and log.
raftRestart(r) ==
    membershipFollowLog(
        [RaftInit(r.id, r.configuration) EXCEPT !.current_term = r.current_term,
                                               !.voted_for = r.voted_for,
                                               !.log = r.log])

\* The voters of Q, in the order of their ids, receive the RequestVote of
\* candidate i and answer it, as long as i is a candidate.
RECURSIVE electionRound(_, _, _)
electionRound(servers, i, Q) ==
    IF Q = {} \/ servers[i].state # RAFT_CANDIDATE THEN servers
    ELSE LET j == CHOOSE x \in Q : \A y \in Q : x <= y
             v == recvRequestVote(Entered(servers[j]), i, RequestVoteArgs(servers[i]))
             c == recvRequestVoteResult(servers[i], j, v.result)
         IN  electionRound([servers EXCEPT ![j] = Settled(v.r), ![i] = c], i, Q \ {j})

\* The election timer of server i fires; its RequestVote reaches the voters
\* of Q, whose answers reach i.
ClusterElection ==
    /\ \E i \in Campaigners :
          /\ cluster[i].state \in {RAFT_FOLLOWER, RAFT_CANDIDATE}
          /\ cluster[i].current_term < MaxClusterTerm
          /\ i \in configurationVoters(cluster[i].configuration)
          /\ \E Q \in SUBSET {j \in configurationVoters(cluster[i].configuration) :
                                   Reachable(i, j)} :
                LET started == [cluster EXCEPT ![i] = electionStart(Entered(cluster[i]))]
                    done == electionRound(started, i, Q)
                IN  cluster' = [done EXCEPT ![i] = Settled(done[i])]
    /\ UNCHANGED <<uv, raft, ret, env>>

\* Leader i sends server j of its configuration the entries from its next
\* index on (none: a heartbeat) and gets the result.
ClusterAppendEntries ==
    /\ \E i \in ServerIds, j \in ServerIds :
          /\ Reachable(i, j)
          /\ cluster[i].state = RAFT_LEADER
          /\ configurationGet(cluster[i].configuration, j) # NullServer
          /\ LET f == recvAppendEntries(Entered(cluster[j]), i, AppendEntriesArgs(cluster[i], j))
                 l == recvAppendEntriesResult(Entered(cluster[i]), j, f.result)
             IN  cluster' = [cluster EXCEPT ![j] = Settled(f.r), ![i] = Settled(l.r)]
    /\ UNCHANGED <<uv, raft, ret, env>>

\* A client has leader i remove server id; the call succeeds.
ClusterRemove ==
    /\ \E i \in ServerIds, id \in Removed :
          /\ i # id
          /\ logLastIndex(cluster[i].log) < MaxClusterLog
          /\ LET c == raft_remove(Entered(cluster[i]), FreshReq(cluster[i]), id, "none", "intact")
             IN  /\ c.rv = OK
                 /\ cluster' = [cluster EXCEPT ![i] = Settled(c.r)]
    /\ UNCHANGED <<uv, raft, ret, env>>

\* A client has leader i apply a command; the call succeeds.
ClusterApply ==
    /\ \E i \in ServerIds :
          /\ logLastIndex(cluster[i].log) < MaxClusterLog
          /\ LET c == raft_apply(Entered(cluster[i]), FreshReq(cluster[i]), <<i>>, "none")
             IN  /\ c.rv = OK
                 /\ cluster' = [cluster EXCEPT ![i] = Settled(c.r)]
    /\ UNCHANGED <<uv, raft, ret, env>>

\* Leader i crashes and is started again.
ClusterRestart ==
    /\ \E i \in Campaigners :
          /\ cluster[i].state = RAFT_LEADER
          /\ cluster' = [cluster EXCEPT ![i] = raftRestart(cluster[i])]
    /\ UNCHANGED <<uv, raft, ret, env>>

ClusterInit ==
    /\ cluster = [i \in ServerIds |-> RaftInit(i, ClusterConfiguration)]
    /\ uv = 0
    /\ raft = 0
    /\ ret = 0
    /\ env = 0

ClusterNext ==
    \/ ClusterElection
    \/ ClusterAppendEntries
    \/ ClusterRemove
    \/ ClusterApply
    \/ ClusterRestart

ClusterSpec == ClusterInit /\ [][ClusterNext]_vars

\* C2: no two replicas are leader in the same term.
ElectionSafety ==
    \A i \in ServerIds, j \in ServerIds :
        (i # j /\ cluster[i].state = RAFT_LEADER /\ cluster[j].state = RAFT_LEADER)
            => cluster[i].current_term # cluster[j].current_term

\* C3: two replicas that have applied the entry at an index have applied the
\* same entry.
StateMachineSafety ==
    \A i \in ServerIds, j \in ServerIds :
        \A n \in 1..Min(cluster[i].last_applied, cluster[j].last_applied) :
            logGet(cluster[i].log, n) = logGet(cluster[j].log, n)

(***************************************************************************)
(* Claims about the prepare pool (PrepareSpec).                            *)
(***************************************************************************)
\* The segment being created, as the thread pool holds it.
InflightSegment(u) == CHOOSE s \in u.work : TRUE

\* The callbacks invoked by the entry point that ran last.
LastFired == SubSeq(uv.fired, Len(uv.fired) - ret.fired + 1, Len(uv.fired))

\* C11: a uvPrepare call made while the pool holds a ready segment and no
\* request is pending invokes the callback of its request before it returns,
\* with status 0 and the descriptor and counter of the oldest segment of the
\* pool, and takes that segment out of the pool.
UvPrepareServedFromPool ==
    [][(/\ ret'.op = "uvPrepare"
        /\ uv.prepare_pool # <<>>
        /\ uv.prepare_reqs = <<>>)
       => /\ uv'.fired = Append(uv.fired, [req |-> uv'.n_reqs, status |-> OK,
                                           counter |-> Head(uv.prepare_pool).counter,
                                           fd |-> Head(uv.prepare_pool).fd])
          /\ uv'.prepare_pool = Tail(uv.prepare_pool)]_vars

\* uvPrepare found two segments in the pool and handed out the older one.
UvPrepareServedAtOnce ==
    /\ ret.op = "uvPrepare"
    /\ ret.fired = 1
    /\ uv.fired[Len(uv.fired)].status = OK
    /\ uv.fired[Len(uv.fired)].req = uv.n_reqs
    /\ Len(uv.prepare_pool) = 1
    /\ uv.prepare_pool[1].counter = uv.fired[Len(uv.fired)].counter + 1

\* C12: every request submitted is pending or completed; the pending ones
\* wait in submission order behind the completed ones, the requests that got
\* a segment got it in submission order, and the counters of the segments
\* they got increase strictly.
PrepareFifo ==
    /\ Len(uv.fired) + Len(uv.prepare_reqs) = uv.n_reqs
    /\ {uv.fired[i].req : i \in 1..Len(uv.fired)} \cup Range(uv.prepare_reqs) = 1..uv.n_reqs
    /\ \A i, j \in 1..Len(uv.prepare_reqs) :
           i < j => uv.prepare_reqs[i] < uv.prepare_reqs[j]
    /\ \A i \in 1..Len(uv.fired), j \in 1..Len(uv.prepare_reqs) :
           uv.fired[i].req < uv.prepare_reqs[j]
    /\ \A i, j \in 1..Len(uv.fired) :
           (i < j /\ uv.fired[i].status = OK /\ uv.fired[j].status = OK)
               => /\ uv.fired[i].req < uv.fired[j].req
                  /\ uv.fired[i].counter < uv.fired[j].counter

\* Three requests were queued; two allocations completed and served the first
\* two, the third still waits.
PrepareQueuedServedInOrder ==
    /\ ret.op = "uvPrepareCreateFileAfterWorkCb"
    /\ ret.fired = 1
    /\ Len(uv.fired) = 2
    /\ uv.fired[1].status = OK
    /\ uv.fired[2].status = OK
    /\ uv.prepare_reqs # <<>>

\* C13: closing the prepare pool completes every pending request with
\* canceled, closes and removes every segment of the pool and marks the
\* allocation in flight as canceled; when a canceled allocation completes,
\* whatever its outcome, its file is gone, the pool stays empty and no
\* callback is invoked.
PrepareCloseCancels ==
    [][/\ ret'.op = "uvPrepareClose"
          => /\ uv'.prepare_reqs = <<>>
             /\ uv'.fired = uv.fired \o [i \in 1..Len(uv.prepare_reqs) |->
                                            FireFailed(uv.prepare_reqs[i], RAFT_CANCELED)]
             /\ uv'.prepare_pool = <<>>
             /\ \A i \in 1..Len(uv.prepare_pool) :
                    /\ uv.prepare_pool[i].counter \notin uv'.files
                    /\ uv.prepare_pool[i].fd \notin uv'.fds
             /\ \A s \in uv'.work : s.canceled
       /\ (ret'.op = "uvPrepareCreateFileAfterWorkCb" /\ InflightSegment(uv).canceled)
          => /\ InflightSegment(uv).counter \notin uv'.files
             /\ uv'.prepare_pool = <<>>
             /\ uv'.fired = uv.fired]_vars

\* C14: when an allocation that failed, in the allocate step or in the sync
\* of the directory, completes on a store that is not closing, every pending
\* request is completed with io-error, the store is marked errored and the
\* pool is left as it was.
FailedAllocationFlushes ==
    [][(/\ ret'.op = "uvPrepareCreateFileAfterWorkCb"
        /\ ~uv.closing
        /\ InflightSegment(uv).status # OK)
       => /\ uv'.prepare_reqs = <<>>
          /\ uv'.fired = uv.fired \o [i \in 1..Len(uv.prepare_reqs) |->
                                         FireFailed(uv.prepare_reqs[i], RAFT_IOERR)]
          /\ uv'.errored
          /\ uv'.prepare_pool = uv.prepare_pool
          /\ uv'.work = {}]_vars

\* A failed allocation completed while two requests were waiting for it.
AllocationFailedWithPending ==
    /\ ret.op = "uvPrepareCreateFileAfterWorkCb"
    /\ ret.fired = 2
    /\ \A i \in 1..2 : LastFired[i].status = RAFT_IOERR
    /\ uv.errored
    /\ ~uv.closing
    /\ uv.prepare_pool = <<>>

\* C15: on a store marked errored no request completes successfully and no
\* segment allocation is started.
ErroredRefusesWrites ==
    [][uv.errored
       => /\ \A i \in (Len(uv.fired) + 1)..Len(uv'.fired) : uv'.fired[i].status # OK
          /\ uv'.prepare_next_counter = uv.prepare_next_counter
          /\ uv'.work \subseteq uv.work]_vars

(***************************************************************************)
(* The snapshot store (uv_snapshot.c).                                     *)
(*                                                                         *)
(* A file of the data directory is [name, content].  The name of the       *)
(* metadata file of a snapshot is <<"snapshot", term, index, timestamp,    *)
(* "meta">> (snapshot-<term>-<index>-<timestamp>.meta) and the name of its  *)
(* data file is the same without the suffix.  The content of a data file   *)
(* is the payload of the snapshot, the content of a metadata file is the   *)
(* configuration index.                                                    *)
(*                                                                         *)
(* uv.snapshot_put_reqs  queue of struct put: [req, snapshot, timestamp,   *)
(*                       trailing]                                         *)
(* uv.snapshot_put_work  req of the put handed to the thread pool          *)
(*                       (snapshot_put_work.data), 0 for NULL              *)
(* uv.snapshot_get_reqs  queue of struct get: [req, status, snapshot, ran] *)
(* uv.put_status         put->status of the put handed to the thread pool  *)
(* uv.put_pc             the step the put work callback is to take next    *)
(* uv.barrier            whether a truncate request blocks the store       *)
(* uv.append_next_index, uv.finalize_last_index                            *)
(* uv.closing, uv.errored                                                  *)
(* uv.close_fired        whether the close callback has been invoked       *)
(* uv.now                the clock of uv_now()                             *)
(* uv.fired              the request callbacks invoked so far:             *)
(*                       [kind, req, status, snapshot]                     *)
(* uv.n_reqs             number of requests submitted so far               *)
(* env.files             the files of the data directory                   *)
(* env.n_failures, env.n_crashes                                           *)
(***************************************************************************)
\* Snapshots put in a run have a term in 1..MaxSnapshotTerm, an index in
\* 1..MaxSnapshotIndex and a timestamp in 1..MaxTime.
MaxSnapshotTerm == 2
MaxSnapshotIndex == 2
MaxTime == 2
\* The term and the index of a snapshot put in a run add up to at most
\* MaxSnapshotRank.
MaxSnapshotRank == 3
\* Number of put and get requests submitted, of injected I/O failures and of
\* crashes in a run of the snapshot store.
MaxSnapshotReqs == 3
MaxSnapshotFailures == 1
MaxCrashes == 1

\* What a struct raft_snapshot that was allocated and never filled reads as.
Unpopulated == [term |-> 0, index |-> 0, configuration_index |-> 0, data |-> 0]

\* sprintf(filename, UV__SNAPSHOT_META_TEMPLATE, term, index, timestamp)
SnapshotMetaFilename(term, index, timestamp) ==
    <<"snapshot", term, index, timestamp, "meta">>

\* sprintf(filename, UV__SNAPSHOT_TEMPLATE, term, index, timestamp)
SnapshotFilename(term, index, timestamp) == <<"snapshot", term, index, timestamp>>

\* matched tells whether the filename is that of a metadata file.
uvSnapshotInfoMatch(filename) ==
    IF Len(filename) = 5 /\ filename[1] = "snapshot" /\ filename[5] = "meta"
    THEN [matched |-> TRUE,
          info |-> [term |-> filename[2], index |-> filename[3],
                    timestamp |-> filename[4], filename |-> filename]]
    ELSE [matched |-> FALSE, info |-> 0]

\* The name of the data file: the metadata filename without ".meta".
uvSnapshotFilenameOf(info) == SubSeq(info.filename, 1, Len(info.filename) - 1)

FileNames(files) == {f.name : f \in files}

\* UvFsRemoveFile
RemoveFile(files, name) == {f \in files : f.name # name}

\* UvFsReadFile
FileContent(files, name) == (CHOOSE f \in files : f.name = name).content

\* As uvSnapshotInfoAppendIfMatch, without the check for the data file.
uvSnapshotInfoAppendIfMatch_NoDataCheck(l, filename) ==
    LET m == uvSnapshotInfoMatch(filename)
    IN  IF ~m.matched THEN l
        ELSE [l EXCEPT !.infos = Append(l.infos, m.info)]

\* One directory entry seen by uvList: l is [files, infos]; a metadata file
\* without its data file is removed from the directory and not appended.
uvSnapshotInfoAppendIfMatch(l, filename) ==
    LET m == uvSnapshotInfoMatch(filename)
    IN  IF ~m.matched THEN l
        ELSE IF uvSnapshotFilenameOf(m.info) \notin FileNames(l.files)
        THEN [l EXCEPT !.files = RemoveFile(l.files, filename)]
        ELSE [l EXCEPT !.infos = Append(l.infos, m.info)]

uvSnapshotCompare(s1, s2) ==
    IF s1.term # s2.term THEN (IF s1.term < s2.term THEN -1 ELSE 1)
    ELSE IF s1.index # s2.index THEN (IF s1.index < s2.index THEN -1 ELSE 1)
    ELSE IF s1.timestamp < s2.timestamp THEN -1 ELSE 1

\* Insert info into the sorted sequence infos, before the first element that
\* does not compare lower.
RECURSIVE SortedInsert(_, _)
SortedInsert(infos, info) ==
    IF infos = <<>> THEN <<info>>
    ELSE IF uvSnapshotCompare(Head(infos), info) < 0
    THEN <<Head(infos)>> \o SortedInsert(Tail(infos), info)
    ELSE <<info>> \o infos

\* qsort(infos, n_infos, sizeof *infos, uvSnapshotCompare)
RECURSIVE uvSnapshotSort(_)
uvSnapshotSort(infos) ==
    IF infos = <<>> THEN <<>>
    ELSE SortedInsert(uvSnapshotSort(Tail(infos)), Head(infos))

\* The loop of uvList over the entries of the directory.
RECURSIVE ListEntries(_, _)
ListEntries(l, names) ==
    IF names = {} THEN l
    ELSE LET filename == CHOOSE n \in names : TRUE
         IN  ListEntries(uvSnapshotInfoAppendIfMatch(l, filename), names \ {filename})

\* Scan the directory and sort the snapshots found, modelled from section
\* 4.2: fail is "list" if the directory cannot be read.
uvList(files, fail) ==
    IF fail = "list" THEN [rv |-> RAFT_IOERR, files |-> files, snapshots |-> <<>>]
    ELSE LET l == ListEntries([files |-> files, infos |-> <<>>], FileNames(files))
         IN  [rv |-> OK, files |-> l.files, snapshots |-> uvSnapshotSort(l.infos)]

\* The loop of uvSnapshotKeepLastTwo from the i'th snapshot on; failAt is the
\* number of the UvFsRemoveFile call that fails, 0 if none does.  Removing a
\* file that does not exist fails.
RECURSIVE KeepLastTwoFrom(_, _, _, _)
KeepLastTwoFrom(files, snapshots, i, failAt) ==
    IF i > Len(snapshots) - 2 THEN [rv |-> OK, files |-> files]
    ELSE IF failAt = 2 * i - 1 \/ snapshots[i].filename \notin FileNames(files)
    THEN [rv |-> RAFT_IOERR, files |-> files]
    ELSE LET f1 == RemoveFile(files, snapshots[i].filename)
         IN  IF failAt = 2 * i \/ uvSnapshotFilenameOf(snapshots[i]) \notin FileNames(f1)
             THEN [rv |-> RAFT_IOERR, files |-> f1]
             ELSE KeepLastTwoFrom(RemoveFile(f1, uvSnapshotFilenameOf(snapshots[i])),
                                  snapshots, i + 1, failAt)

uvSnapshotKeepLastTwo(files, snapshots, failAt) ==
    IF Len(snapshots) <= 2 THEN [rv |-> OK, files |-> files]
    ELSE KeepLastTwoFrom(files, snapshots, 1, failAt)

\* fail: "list" (uvList), "unlink_meta" and "unlink_data" (the removal of the
\* oldest snapshot), "sync" (UvFsSyncDir).  The directory holds no segments.
removeOldSegmentsAndSnapshots(files, fail) ==
    LET l == uvList(files, fail)
        k == uvSnapshotKeepLastTwo(l.files, l.snapshots,
                                   IF fail = "unlink_meta" THEN 1
                                   ELSE IF fail = "unlink_data" THEN 2 ELSE 0)
    IN  IF l.rv # OK THEN [rv |-> l.rv, files |-> l.files]
        ELSE IF k.rv # OK THEN k
        ELSE IF fail = "sync" THEN [rv |-> RAFT_IOERR, files |-> k.files]
        ELSE [rv |-> OK, files |-> k.files]

\* UvFsMakeFile, modelled from section 4.2: the file is created with its
\* content, or the call fails and leaves nothing; it fails on a file that
\* exists.
UvFsMakeFile(files, name, content, fail) ==
    IF fail \/ name \in FileNames(files) THEN [rv |-> RAFT_IOERR, files |-> files]
    ELSE [rv |-> OK, files |-> files \cup {[name |-> name, content |-> content]}]

\* The put the thread pool works on.
PutInWork(u) == CHOOSE p \in Range(u.snapshot_put_reqs) : p.req = u.snapshot_put_work

\* One step of uvSnapshotPutWorkCb, u.put_pc telling which: the metadata
\* file, the data file, the sync of the directory, the pruning.  s is
\* [u, files]; fail names the call that fails, "none" if none does.
uvSnapshotPutWorkCb(s, fail) ==
    LET u == s.u
        put == PutInWork(u)
        failed == [s EXCEPT !.u.put_status = RAFT_IOERR, !.u.put_pc = "done"]
    IN  IF u.put_pc = "meta"
        THEN LET m == UvFsMakeFile(s.files,
                                   SnapshotMetaFilename(put.snapshot.term, put.snapshot.index,
                                                        put.timestamp),
                                   put.snapshot.configuration_index, fail = "make")
             IN  IF m.rv # OK THEN failed
                 ELSE [u |-> [u EXCEPT !.put_pc = "data"], files |-> m.files]
        ELSE IF u.put_pc = "data"
        THEN LET m == UvFsMakeFile(s.files,
                                   SnapshotFilename(put.snapshot.term, put.snapshot.index,
                                                    put.timestamp),
                                   put.snapshot.data, fail = "make")
             IN  IF m.rv # OK THEN failed
                 ELSE [u |-> [u EXCEPT !.put_pc = "sync"], files |-> m.files]
        ELSE IF u.put_pc = "sync"
        THEN IF fail = "sync" THEN failed
             ELSE [s EXCEPT !.u.put_pc = "prune"]
        ELSE LET r == removeOldSegmentsAndSnapshots(s.files, fail)
             IN  [u |-> [u EXCEPT !.put_status = r.rv, !.put_pc = "done"],
                  files |-> r.files]

\* The failures a step of the put work callback can meet.
PutWorkFailures(u) ==
    IF u.put_pc \in {"meta", "data"} THEN {"none", "make"}
    ELSE IF u.put_pc = "sync" THEN {"none", "sync"}
    ELSE {"none", "list", "unlink_meta", "unlink_data", "sync"}

\* Invoke the close callback once the store is closing and no request is
\* outstanding, modelled from section 6 (cancellation).
uvMaybeFireCloseCb(u) ==
    IF /\ u.closing
       /\ ~u.close_fired
       /\ u.snapshot_put_work = 0
       /\ u.snapshot_put_reqs = <<>>
       /\ u.snapshot_get_reqs = <<>>
       /\ ~u.barrier
    THEN [u EXCEPT !.close_fired = TRUE]
    ELSE u

uvSnapshotPutAfterWorkCb(u) ==
    LET put == PutInWork(u)
    IN  uvMaybeFireCloseCb(
            [u EXCEPT !.snapshot_put_reqs = SeqMinus(u.snapshot_put_reqs, {put}),
                      !.snapshot_put_work = 0,
                      !.put_pc = "none",
                      !.fired = Append(u.fired,
                                       [kind |-> "put", req |-> put.req,
                                        status |-> u.put_status,
                                        snapshot |-> put.snapshot,
                                        timestamp |-> put.timestamp])])

\* uvSnapshotMaybeProcessRequests without the test of uv->barrier.
uvSnapshotMaybeProcessRequests_IgnoresBarrier(u, fail) ==
    IF u.snapshot_put_reqs = <<>> THEN u
    ELSE IF u.snapshot_put_work # 0 THEN u
    ELSE LET put == Head(u.snapshot_put_reqs)
             u1 == [u EXCEPT !.finalize_last_index =
                                 IF u.finalize_last_index = 0 THEN put.snapshot.index
                                 ELSE u.finalize_last_index,
                             !.snapshot_put_work = put.req]
         IN  IF fail = "queue" THEN [u1 EXCEPT !.errored = TRUE]
             ELSE [u1 EXCEPT !.put_pc = "meta", !.put_status = OK]

\* fail is "queue" if uv_queue_work fails.
uvSnapshotMaybeProcessRequests(u, fail) ==
    IF u.snapshot_put_reqs = <<>> THEN u
    ELSE IF u.snapshot_put_work # 0 THEN u
    ELSE IF u.barrier THEN u
    ELSE LET put == Head(u.snapshot_put_reqs)
             u1 == [u EXCEPT !.finalize_last_index =
                                 IF u.finalize_last_index = 0 THEN put.snapshot.index
                                 ELSE u.finalize_last_index,
                             !.snapshot_put_work = put.req]
         IN  IF fail = "queue" THEN [u1 EXCEPT !.errored = TRUE]
             ELSE [u1 EXCEPT !.put_pc = "meta", !.put_status = OK]

\* fail: "nomem" (HeapMalloc), "encode" (configurationEncode), "queue".
UvSnapshotPut(u, req, trailing, snapshot, fail) ==
    IF fail \in {"nomem", "encode"} THEN [rv |-> RAFT_NOMEM, u |-> u]
    ELSE LET put == [req |-> req, snapshot |-> snapshot, timestamp |-> u.now,
                     trailing |-> trailing]
             u1 == [u EXCEPT !.append_next_index =
                                 IF u.append_next_index = 1 THEN snapshot.index + 1
                                 ELSE u.append_next_index,
                             !.snapshot_put_reqs = Append(u.snapshot_put_reqs, put)]
         IN  [rv |-> OK, u |-> uvSnapshotMaybeProcessRequests(u1, fail)]

\* Parse the metadata file and read the data file; fail is "load" if one of
\* them cannot be opened or read, as is the case of a file that is not there.
uvSnapshotLoad(files, meta, fail) ==
    IF \/ fail = "load"
       \/ meta.filename \notin FileNames(files)
       \/ uvSnapshotFilenameOf(meta) \notin FileNames(files)
    THEN [rv |-> RAFT_IOERR,
          snapshot |-> [Unpopulated EXCEPT !.term = meta.term, !.index = meta.index]]
    ELSE [rv |-> OK,
          snapshot |-> [term |-> meta.term, index |-> meta.index,
                        configuration_index |-> FileContent(files, meta.filename),
                        data |-> FileContent(files, uvSnapshotFilenameOf(meta))]]

\* The get loading the listed snapshot it finds first.
uvSnapshotGetWorkCb_LoadsOldest(s, get, fail) ==
    LET l == uvList(s.files, fail)
        loaded == uvSnapshotLoad(l.files, l.snapshots[1], fail)
        ran == IF l.rv # OK
               THEN [get EXCEPT !.status = l.rv, !.ran = TRUE]
               ELSE IF l.snapshots # <<>>
               THEN [get EXCEPT !.status = loaded.rv, !.snapshot = loaded.snapshot,
                                !.ran = TRUE]
               ELSE [get EXCEPT !.status = OK, !.ran = TRUE]
    IN  [u |-> [s.u EXCEPT !.snapshot_get_reqs =
                               [i \in 1..Len(s.u.snapshot_get_reqs) |->
                                   IF s.u.snapshot_get_reqs[i] = get THEN ran
                                   ELSE s.u.snapshot_get_reqs[i]]],
         files |-> l.files,
         list |-> l,
         ran |-> ran]

\* s is [u, files]; list is what uvList answered and ran is the get as the
\* work callback leaves it.
uvSnapshotGetWorkCb(s, get, fail) ==
    LET l == uvList(s.files, fail)
        loaded == uvSnapshotLoad(l.files, l.snapshots[Len(l.snapshots)], fail)
        ran == IF l.rv # OK
               THEN [get EXCEPT !.status = l.rv, !.ran = TRUE]
               ELSE IF l.snapshots # <<>>
               THEN [get EXCEPT !.status = loaded.rv, !.snapshot = loaded.snapshot,
                                !.ran = TRUE]
               ELSE [get EXCEPT !.status = OK, !.ran = TRUE]
    IN  [u |-> [s.u EXCEPT !.snapshot_get_reqs =
                               [i \in 1..Len(s.u.snapshot_get_reqs) |->
                                   IF s.u.snapshot_get_reqs[i] = get THEN ran
                                   ELSE s.u.snapshot_get_reqs[i]]],
         files |-> l.files,
         list |-> l,
         ran |-> ran]

uvSnapshotGetAfterWorkCb(u, get) ==
    uvMaybeFireCloseCb(
        [u EXCEPT !.snapshot_get_reqs = SeqMinus(u.snapshot_get_reqs, {get}),
                  !.fired = Append(u.fired,
                                   [kind |-> "get", req |-> get.req,
                                    status |-> get.status,
                                    snapshot |-> get.snapshot,
                                    timestamp |-> 0])])

\* fail: "nomem" (HeapMalloc, raft_malloc), "queue" (uv_queue_work).
UvSnapshotGet(u, req, fail) ==
    IF fail = "nomem" THEN [rv |-> RAFT_NOMEM, u |-> u]
    ELSE IF fail = "queue" THEN [rv |-> RAFT_IOERR, u |-> u]
    ELSE [rv |-> OK,
          u |-> [u EXCEPT !.snapshot_get_reqs =
                              Append(u.snapshot_get_reqs,
                                     [req |-> req, status |-> OK,
                                      snapshot |-> Unpopulated, ran |-> FALSE])]]

(***************************************************************************)
(* The snapshot store and its environment: the callers of the raft_io      *)
(* interface, the threads of the pool, the file system, crashes.           *)
(***************************************************************************)
SnapshotUvInit ==
    [snapshot_put_reqs |-> <<>>, snapshot_put_work |-> 0, snapshot_get_reqs |-> <<>>,
     put_status |-> OK, put_pc |-> "none", barrier |-> FALSE,
     append_next_index |-> 1, finalize_last_index |-> 0,
     closing |-> FALSE, errored |-> FALSE, close_fired |-> FALSE,
     now |-> 1, fired |-> <<>>, n_reqs |-> 0]

\* What the entry point that ran last did: its return value and, for the work
\* callback of a get, the answer of uvList (rv), the snapshots it listed, the
\* files it removed, and the status and the snapshot it leaves in the request.
SnapshotRet(op, rv) ==
    [op |-> op, rv |-> rv, listed |-> <<>>, removed |-> {}, status |-> OK,
     loaded |-> Unpopulated]

\* At most MaxSnapshotFailures calls fail in a run.
SnapshotEnv(files, fail) ==
    /\ fail # "none" => env.n_failures < MaxSnapshotFailures
    /\ env' = [env EXCEPT !.files = files,
                          !.n_failures = IF fail # "none" THEN @ + 1 ELSE @]

SnapshotPut ==
    /\ ~uv.closing
    /\ uv.n_reqs < MaxSnapshotReqs
    /\ \E term \in 1..MaxSnapshotTerm, index \in 1..MaxSnapshotIndex,
          now \in uv.now..MaxTime, fail \in {"none", "nomem", "encode", "queue"} :
          LET req == uv.n_reqs + 1
              r == UvSnapshotPut([uv EXCEPT !.n_reqs = req, !.now = now], req, 1,
                                 [term |-> term, index |-> index,
                                  configuration_index |-> 1, data |-> req],
                                 fail)
          IN  /\ term + index <= MaxSnapshotRank
              /\ uv' = r.u
              /\ ret' = SnapshotRet("UvSnapshotPut", r.rv)
              /\ SnapshotEnv(env.files, fail)
    /\ UNCHANGED <<raft, cluster>>

SnapshotPutWork ==
    /\ uv.put_pc \in {"meta", "data", "sync", "prune"}
    /\ \E fail \in PutWorkFailures(uv) :
          LET s == uvSnapshotPutWorkCb([u |-> uv, files |-> env.files], fail)
          IN  /\ uv' = s.u
              /\ ret' = SnapshotRet("uvSnapshotPutWorkCb", OK)
              /\ SnapshotEnv(s.files, fail)
    /\ UNCHANGED <<raft, cluster>>

SnapshotPutAfterWork ==
    /\ uv.put_pc = "done"
    /\ uv' = uvSnapshotPutAfterWorkCb(uv)
    /\ ret' = SnapshotRet("uvSnapshotPutAfterWorkCb", OK)
    /\ UNCHANGED <<raft, cluster, env>>

SnapshotGet ==
    /\ ~uv.closing
    /\ uv.n_reqs < MaxSnapshotReqs
    /\ \E fail \in {"none", "nomem", "queue"} :
          LET req == uv.n_reqs + 1
              r == UvSnapshotGet([uv EXCEPT !.n_reqs = req], req, fail)
          IN  /\ uv' = r.u
              /\ ret' = SnapshotRet("UvSnapshotGet", r.rv)
              /\ SnapshotEnv(env.files, fail)
    /\ UNCHANGED <<raft, cluster>>

SnapshotGetWork ==
    /\ \E get \in Range(uv.snapshot_get_reqs), fail \in {"none", "list", "load"} :
          /\ ~get.ran
          /\ LET s == uvSnapshotGetWorkCb([u |-> uv, files |-> env.files], get, fail)
             IN  /\ uv' = s.u
                 /\ ret' = [SnapshotRet("uvSnapshotGetWorkCb", s.list.rv)
                               EXCEPT !.listed = s.list.snapshots,
                                      !.removed = FileNames(env.files) \ FileNames(s.files),
                                      !.status = s.ran.status,
                                      !.loaded = s.ran.snapshot]
                 /\ SnapshotEnv(s.files, fail)
    /\ UNCHANGED <<raft, cluster>>

SnapshotGetAfterWork ==
    /\ \E get \in Range(uv.snapshot_get_reqs) :
          /\ get.ran
          /\ uv' = uvSnapshotGetAfterWorkCb(uv, get)
    /\ ret' = SnapshotRet("uvSnapshotGetAfterWorkCb", OK)
    /\ UNCHANGED <<raft, cluster, env>>

\* A truncate request blocks the store (section 4.5).
SnapshotBarrier ==
    /\ ~uv.closing
    /\ ~uv.barrier
    /\ uv' = [uv EXCEPT !.barrier = TRUE]
    /\ ret' = SnapshotRet("UvTruncate", OK)
    /\ UNCHANGED <<raft, cluster, env>>

\* The truncate request is done and the requests it held up are processed.
SnapshotBarrierDone ==
    /\ uv.barrier
    /\ \E fail \in {"none", "queue"} :
          /\ uv' = uvMaybeFireCloseCb(
                       uvSnapshotMaybeProcessRequests([uv EXCEPT !.barrier = FALSE], fail))
          /\ SnapshotEnv(env.files, fail)
    /\ ret' = SnapshotRet("uvTruncateAfterWorkCb", OK)
    /\ UNCHANGED <<raft, cluster>>

\* uvClose, as far as the snapshot store goes.
SnapshotClose ==
    /\ ~uv.closing
    /\ uv' = uvMaybeFireCloseCb([uv EXCEPT !.closing = TRUE])
    /\ ret' = SnapshotRet("uvClose", OK)
    /\ UNCHANGED <<raft, cluster, env>>

\* The process stops at any point and a new one opens the directory: the
\* files stay, the requests are gone.
SnapshotCrash ==
    /\ env.n_crashes < MaxCrashes
    /\ uv' = [SnapshotUvInit EXCEPT !.now = uv.now, !.fired = uv.fired,
                                    !.n_reqs = uv.n_reqs]
    /\ env' = [env EXCEPT !.n_crashes = @ + 1]
    /\ ret' = SnapshotRet("crash", OK)
    /\ UNCHANGED <<raft, cluster>>

SnapshotInit ==
    /\ uv = SnapshotUvInit
    /\ env = [files |-> {[name |-> <<"metadata1">>, content |-> 0]},
              n_failures |-> 0, n_crashes |-> 0]
    /\ ret = SnapshotRet("none", OK)
    /\ raft = 0
    /\ cluster = 0

SnapshotNext ==
    \/ SnapshotPut
    \/ SnapshotPutWork
    \/ SnapshotPutAfterWork
    \/ SnapshotGet
    \/ SnapshotGetWork
    \/ SnapshotGetAfterWork
    \/ SnapshotBarrier
    \/ SnapshotBarrierDone
    \/ SnapshotClose
    \/ SnapshotCrash

SnapshotSpec == SnapshotInit /\ [][SnapshotNext]_vars

(***************************************************************************)
(* Claims about the snapshot store (SnapshotSpec).                         *)
(***************************************************************************)
\* a is more recent than b: the higher term, else the higher index, else the
\* higher timestamp.
MoreRecent(a, b) ==
    \/ a.term > b.term
    \/ a.term = b.term /\ a.index > b.index
    \/ a.term = b.term /\ a.index = b.index /\ a.timestamp > b.timestamp

SnapshotKeys ==
    [term : 1..MaxSnapshotTerm, index : 1..MaxSnapshotIndex, timestamp : 1..MaxTime]

\* The snapshots that have both their files in the directory.
StoredSnapshots(files) ==
    {k \in SnapshotKeys :
        /\ SnapshotMetaFilename(k.term, k.index, k.timestamp) \in FileNames(files)
        /\ SnapshotFilename(k.term, k.index, k.timestamp) \in FileNames(files)}

\* The snapshots of which a file is left in the directory.
SnapshotTraces(files) ==
    {k \in SnapshotKeys :
        \/ SnapshotMetaFilename(k.term, k.index, k.timestamp) \in FileNames(files)
        \/ SnapshotFilename(k.term, k.index, k.timestamp) \in FileNames(files)}

\* The snapshots whose put has completed with success.
PutSnapshots ==
    {[term |-> uv.fired[i].snapshot.term, index |-> uv.fired[i].snapshot.index,
      timestamp |-> uv.fired[i].timestamp] :
        i \in {j \in 1..Len(uv.fired) : uv.fired[j].kind = "put" /\ uv.fired[j].status = OK}}

\* The two most recent snapshots of S, all of S if it has fewer.
LastTwo(S) == {k \in S : Cardinality({m \in S : MoreRecent(m, k)}) < 2}

\* Every put submitted so far has completed with success.
AllPutsSucceeded ==
    /\ env.n_failures = 0
    /\ env.n_crashes = 0
    /\ uv.snapshot_put_reqs = <<>>
    /\ \A i \in 1..Len(uv.fired) : uv.fired[i].kind = "put" => uv.fired[i].status = OK

\* C16: when every put submitted so far has completed with success, the
\* directory holds exactly the two most recent of the snapshots put (all of
\* them if fewer than two were put), and no file of an older one.
PutsKeepLastTwo ==
    AllPutsSucceeded
        => /\ StoredSnapshots(env.files) = LastTwo(PutSnapshots)
           /\ SnapshotTraces(env.files) = LastTwo(PutSnapshots)

\* C17: the put work writes the metadata file, then the data file, then
\* syncs the directory, and removes files only after these three; a listing
\* lists exactly the snapshots that have both files and leaves no metadata
\* file without its data file, whatever failed or crashed before.
PutIsAllOrNothing ==
    [][/\ (ret'.op = "uvSnapshotPutWorkCb" /\ uv.put_pc = "meta")
          => /\ env.files \subseteq env'.files
             /\ \A f \in env'.files \ env.files :
                    f.name = SnapshotMetaFilename(PutInWork(uv).snapshot.term,
                                                  PutInWork(uv).snapshot.index,
                                                  PutInWork(uv).timestamp)
             /\ uv'.put_pc \in {"data", "done"}
             /\ uv'.put_pc = "data" <=> env'.files # env.files
       /\ (ret'.op = "uvSnapshotPutWorkCb" /\ uv.put_pc = "data")
          => /\ env.files \subseteq env'.files
             /\ \A f \in env'.files \ env.files :
                    f.name = SnapshotFilename(PutInWork(uv).snapshot.term,
                                              PutInWork(uv).snapshot.index,
                                              PutInWork(uv).timestamp)
             /\ uv'.put_pc \in {"sync", "done"}
             /\ uv'.put_pc = "sync" <=> env'.files # env.files
       /\ (ret'.op = "uvSnapshotPutWorkCb" /\ uv.put_pc = "sync")
          => /\ env'.files = env.files
             /\ uv'.put_pc \in {"prune", "done"}
       /\ (ret'.op = "uvSnapshotGetWorkCb" /\ ret'.rv = OK)
          => /\ {[term |-> i.term, index |-> i.index, timestamp |-> i.timestamp] :
                     i \in Range(ret'.listed)} = StoredSnapshots(env.files)
             /\ StoredSnapshots(env'.files) = StoredSnapshots(env.files)
             /\ \A k \in SnapshotTraces(env'.files) :
                    SnapshotMetaFilename(k.term, k.index, k.timestamp) \in FileNames(env'.files)
                        => k \in StoredSnapshots(env'.files)]_vars

\* After a crash a listing found a metadata file without its data file,
\* removed it and listed nothing.
OrphanMetaRemoved ==
    /\ ret.op = "uvSnapshotGetWorkCb"
    /\ ret.rv = OK
    /\ env.n_crashes = 1
    /\ env.n_failures = 0
    /\ ret.removed # {}
    /\ ret.listed = <<>>
    /\ uv.snapshot_put_reqs = <<>>

\* uvSnapshotCompare orders distinct snapshots as MoreRecent does, and that
\* is a strict total order.
CompareIsStrictTotalOrder ==
    /\ \A a, b \in SnapshotKeys :
           a # b => /\ (uvSnapshotCompare(a, b) > 0 <=> MoreRecent(a, b))
                    /\ (uvSnapshotCompare(a, b) < 0 <=> MoreRecent(b, a))
                    /\ MoreRecent(a, b) # MoreRecent(b, a)
    /\ \A a \in SnapshotKeys : ~MoreRecent(a, a)
    /\ \A a, b, c \in SnapshotKeys :
           (MoreRecent(a, b) /\ MoreRecent(b, c)) => MoreRecent(a, c)

\* C18: a get that lists snapshots and loads one loads the most recent of
\* the snapshots in the directory, more recent meaning the higher term, else
\* the higher index, else the higher timestamp; on distinct snapshots the
\* comparison of the code is that strict total order.
GetLoadsMostRecent ==
    /\ CompareIsStrictTotalOrder
    /\ [][(/\ ret'.op = "uvSnapshotGetWorkCb"
           /\ ret'.rv = OK
           /\ ret'.listed # <<>>
           /\ ret'.status = OK)
          => \E k \in StoredSnapshots(env.files) :
                 /\ \A m \in StoredSnapshots(env.files) : m # k => MoreRecent(k, m)
                 /\ ret'.loaded.term = k.term
                 /\ ret'.loaded.index = k.index
                 /\ ret'.loaded.data =
                        FileContent(env.files,
                                    SnapshotFilename(k.term, k.index, k.timestamp))]_vars

\* A get found two snapshots and loaded the one that was put first: it has
\* the higher term, the other one the higher index and the later timestamp.
GetLoadedEarlierPut ==
    /\ ret.op = "uvSnapshotGetWorkCb"
    /\ ret.status = OK
    /\ Len(ret.listed) = 2
    /\ ret.loaded.data = 1
    /\ ret.listed[1].index > ret.listed[2].index
    /\ ret.listed[1].timestamp > ret.listed[2].timestamp

\* C19: a get that finds no snapshot in the directory completes with
\* not-found.
GetWithoutSnapshotIsNotFound ==
    [][(/\ ret'.op = "uvSnapshotGetWorkCb"
        /\ ret'.rv = OK
        /\ ret'.listed = <<>>)
       => ret'.status = RAFT_NOTFOUND]_vars

\* C20: once the store is closing and the thread pool and the barrier hold
\* nothing of it, no put or get request is left without its callback, and
\* the close callback is invoked only after all of them.
CloseCompletesSnapshotRequests ==
    /\ (/\ uv.closing
        /\ uv.snapshot_put_work = 0
        /\ uv.snapshot_get_reqs = <<>>
        /\ ~uv.barrier)
       => uv.snapshot_put_reqs = <<>>
    /\ uv.close_fired => (uv.snapshot_put_reqs = <<>> /\ uv.snapshot_get_reqs = <<>>)

(***************************************************************************)
(* Properties of the InstallSnapshot receiver.                             *)
(***************************************************************************)
\* C21: an InstallSnapshot that is answered by the handler itself and whose
\* term is lower than the receiver's gets a reply with rejected =
\* args.last_index, the receiver's term and the receiver's own last log index,
\* and the receiver's state does not change; a reply with rejected = 0 (the
\* snapshot was installed, or ignored as already covered) carries
\* last_log_index = args.last_index.
InstallSnapshotReply ==
    [][(ret'.op = "install_snapshot" /\ ret'.reply # NoReply)
        => /\ ret'.term < raft.current_term
                => /\ ret'.reply.rejected = ret'.last_index
                   /\ ret'.reply.term = raft.current_term
                   /\ ret'.reply.last_log_index = logLastIndex(raft.log)
                   /\ raft' = Entered(raft)
           /\ ret'.term >= raft.current_term => ret'.reply.term = ret'.term
           /\ ret'.reply.rejected = 0
                => ret'.reply.last_log_index = ret'.last_index]_vars

\* A snapshot beyond the receiver's log was installed and acknowledged.
SnapshotInstalledAndAcknowledged ==
    /\ ret.op = "install_snapshot"
    /\ ret.reply # NoReply
    /\ ret.reply.rejected = 0
    /\ ret.reply.last_log_index = ret.last_index
    /\ raft.log.snapshot_last_index = ret.last_index
    /\ raft.log.entries = <<>>
    /\ ret.last_index > 1

(***************************************************************************)
(* Properties of the leadership transfer.                                  *)
(***************************************************************************)
\* Positions of the voters of r's configuration other than r itself.
OtherVoters(r) ==
    {i \in 1..Len(r.configuration) :
        r.configuration[i].id # r.id /\ r.configuration[i].role = RAFT_VOTER}

\* C22: raft_transfer with no target id picks a voter other than the leader
\* that is the most caught-up one: an up-to-date voter if there is one,
\* otherwise a voter with the highest match index; with no other voter the
\* call fails with not-found.
TransferPicksMostCaughtUp ==
    [][(ret'.op = "transfer" /\ ret'.id = 0
            /\ raft.state = RAFT_LEADER /\ raft.transfer = 0)
        => IF OtherVoters(raft) = {}
           THEN ret'.rv = RAFT_NOTFOUND /\ raft'.transfer = 0
           ELSE ret'.rv = OK
                    => \E i \in OtherVoters(raft) :
                          /\ raft'.transfer = raft.configuration[i].id
                          /\ \/ progressIsUpToDate(raft, i)
                             \/ /\ \A j \in OtherVoters(raft) : ~progressIsUpToDate(raft, j)
                                /\ \A j \in OtherVoters(raft) :
                                      progressMatchIndex(raft, j) <= progressMatchIndex(raft, i)]_vars

(***************************************************************************)
(* The membership scenarios: a cluster with a stable leader on which a     *)
(* client adds, promotes and removes servers (TEST(membership, ...)).      *)
(* cluster maps the ids 1..MaxServers to replicas, those above env.n not   *)
(* being part of the cluster yet; env is [test, n, leader, added, removed, *)
(* assigned]; ret is what the client call that ran last returned.  The     *)
(* leader side is raft_add, raft_assign, raft_remove, raft_apply and       *)
(* recvAppendEntriesResult; the follower side is recvAppendEntries.        *)
(***************************************************************************)
\* Servers of a membership run, the added one included.
MaxServers == 5
\* Ticks of the leader's clock in a membership run.
MaxClock == 2
\* Last index of the leader's log in a membership run.
MaxMemberLog == 4

MemberIds == 1..MaxServers

\* n servers, the first voting of them voters, the others of the given role.
MemberConfiguration(n, voting, role) ==
    [i \in 1..n |-> [id |-> i, role |-> IF i <= voting THEN RAFT_VOTER ELSE role]]

\* A server that has been started without a configuration: it holds nothing.
Pristine(id) ==
    [RaftInit(id, <<>>) EXCEPT !.log = EmptyLog, !.current_term = 0,
                               !.commit_index = 0, !.last_applied = 0,
                               !.configuration_index = 0]

\* Server id after the election of leader in term 2 (CLUSTER_STEP_UNTIL_HAS_LEADER).
AfterElection(id, leader, configuration) ==
    LET r == [RaftInit(id, configuration) EXCEPT !.current_term = 2, !.voted_for = leader]
    IN  IF id = leader THEN convertToLeader(r) ELSE [r EXCEPT !.current_leader = leader]

MemberRet(op, rv, id) == [op |-> op, rv |-> rv, id |-> id]

Leader == cluster[env.leader]

\* CLUSTER_ADD: a pristine server joins the cluster and the leader is asked to
\* add it; the test asserts that the call succeeds.
MemberAdd ==
    /\ env.test = "addVoting"
    /\ env.added = 0
    /\ LET id == env.n + 1
           c == raft_add(Entered(Leader), FreshReq(Leader), id, "none", "intact")
       IN  /\ c.rv = OK
           /\ cluster' = [cluster EXCEPT ![env.leader] = Settled(c.r)]
           /\ env' = [env EXCEPT !.n = id, !.added = id]
           /\ ret' = MemberRet("add", c.rv, id)
    /\ UNCHANGED <<uv, raft>>

\* CLUSTER_ASSIGN: the leader is asked to give the last server of the cluster
\* a role.
MemberAssign ==
    /\ \/ env.test = "addVoting" /\ env.added # 0
       \/ env.test = "removeVotingPromoteSpare" /\ env.removed # 0
    /\ ~env.assigned
    /\ LET c == raft_assign(Entered(Leader), FreshReq(Leader), env.n, RAFT_VOTER, "none")
       IN  /\ cluster' = [cluster EXCEPT ![env.leader] = Settled(c.r)]
           /\ env' = [env EXCEPT !.assigned = c.rv = OK]
           /\ ret' = MemberRet("assign", c.rv, env.n)
    /\ UNCHANGED <<uv, raft>>

\* The voter that the test removes: the server after the leader in
\* removeVoting, the first voter that is not the leader in
\* removeVotingPromoteSpare.
RemovedByTest ==
    IF env.test = "removeVoting" THEN (env.leader % env.n) + 1
    ELSE CHOOSE i \in 1..3 : i # env.leader /\ \A j \in 1..(i - 1) : j = env.leader

MemberRemove ==
    /\ env.test \in {"removeVoting", "removeVotingPromoteSpare"}
    /\ env.removed = 0
    /\ LET id == RemovedByTest
           c == raft_remove(Entered(Leader), FreshReq(Leader), id, "none", "intact")
       IN  /\ cluster' = [cluster EXCEPT ![env.leader] = Settled(c.r)]
           /\ env' = [env EXCEPT !.removed = IF c.rv = OK THEN id ELSE 0]
           /\ ret' = MemberRet("remove", c.rv, id)
    /\ UNCHANGED <<uv, raft>>

\* A client has the leader apply a command while a promotion is catching up.
MemberApply ==
    /\ Leader.promotee_id # 0
    /\ logLastIndex(Leader.log) < MaxMemberLog - 1
    /\ LET c == raft_apply(Entered(Leader), FreshReq(Leader), <<0>>, "none")
       IN  /\ c.rv = OK
           /\ cluster' = [cluster EXCEPT ![env.leader] = Settled(c.r)]
           /\ ret' = MemberRet("apply", c.rv, 0)
    /\ UNCHANGED <<uv, raft, env>>

\* The leader sends server j of its configuration the entries from its next
\* index on (none: a heartbeat) and gets the result.
AppendEntriesExchange(j) ==
    LET f == recvAppendEntries(Entered(cluster[j]), env.leader,
                               AppendEntriesArgs(Leader, j))
        l == recvAppendEntriesResult(Entered(Leader), j, f.result)
    IN  [cluster EXCEPT ![j] = Settled(f.r), ![env.leader] = Settled(l.r)]

MemberAppendEntries(j) ==
    /\ j # env.leader
    /\ j <= env.n
    /\ configurationGet(Leader.configuration, j) # NullServer
    /\ cluster' = AppendEntriesExchange(j)
    /\ UNCHANGED <<uv, raft, ret, env>>

\* The leader's clock advances; it is read for the duration of a catch-up
\* round only.
MemberTick ==
    /\ Leader.promotee_id # 0
    /\ Leader.now < MaxClock
    /\ cluster' = [cluster EXCEPT ![env.leader].now = Leader.now + 1]
    /\ UNCHANGED <<uv, raft, ret, env>>

\* The cluster of a test once it has a leader.
MemberInit ==
    /\ \E test \in {"addVoting", "removeVoting", "removeVotingPromoteSpare"},
          n \in 3..MaxServers, leader \in 1..2, role \in {RAFT_STANDBY, RAFT_SPARE} :
          /\ test = "addVoting" => n < MaxServers /\ leader = 1 /\ role = RAFT_STANDBY
          /\ test = "removeVoting" => role = RAFT_STANDBY
          /\ test = "removeVotingPromoteSpare" => n = 4
          /\ LET voting == IF test = "removeVotingPromoteSpare" THEN 3 ELSE n
                 configuration == MemberConfiguration(n, voting, role)
             IN  cluster = [i \in MemberIds |->
                               IF i <= n THEN AfterElection(i, leader, configuration)
                               ELSE Pristine(i)]
          /\ env = [test |-> test, n |-> n, leader |-> leader,
                    added |-> 0, removed |-> 0, assigned |-> FALSE]
    /\ ret = MemberRet("none", OK, 0)
    /\ uv = 0
    /\ raft = 0

MemberNext ==
    \/ MemberAdd
    \/ MemberAssign
    \/ MemberRemove
    \/ MemberApply
    \/ \E j \in MemberIds : MemberAppendEntries(j)
    \/ MemberTick

MembershipSpec == MemberInit /\ [][MemberNext]_vars

\* The exchange between the leader and server j can take place and changes
\* the state: what ENABLED <<MemberAppendEntries(j)>>_vars states.
CanExchange(j) ==
    /\ j # env.leader
    /\ j <= env.n
    /\ configurationGet(Leader.configuration, j) # NullServer
    /\ AppendEntriesExchange(j) # cluster

\* Every message is eventually delivered: the exchange between the leader and
\* a server of its configuration does not stay possible forever without
\* taking place (weak fairness of MemberAppendEntries(j), written out).
MembershipLiveSpec ==
    /\ MembershipSpec
    /\ \A j \in MemberIds :
          \/ []<>(~CanExchange(j))
          \/ []<><<MemberAppendEntries(j)>>_vars

(***************************************************************************)
(* Properties of the membership scenarios.                                 *)
(***************************************************************************)
\* Indices of the configuration entries of log l in which server id is a voter.
VoterEntries(l, id) ==
    {k \in 1..logLastIndex(l) :
        /\ logHas(l, k)
        /\ logGet(l, k).type = RAFT_CHANGE
        /\ configurationGet(logGet(l, k).data, id).role = RAFT_VOTER}

\* Log l holds a command.
HoldsCommand(l) ==
    \E k \in 1..logLastIndex(l) : logHas(l, k) /\ logGet(l, k).type = RAFT_COMMAND

\* Every server of the cluster has applied a configuration entry in which the
\* added server is a voter (the entry at index 3 if no command was applied
\* in between), and the leader's configuration lists it as a voter.
PromotionApplied ==
    /\ env.added # 0
    /\ \A i \in 1..env.n :
          \E k \in VoterEntries(cluster[i].log, env.added) :
             /\ k <= cluster[i].last_applied
             /\ ~HoldsCommand(Leader.log) => k = 3
    /\ configurationGet(Leader.configuration, env.added).role = RAFT_VOTER
    /\ Len(Leader.configuration) = env.n

\* C23: with a stable leader and messages that are eventually delivered, once
\* a server has been added and raft_assign has accepted its promotion to
\* voter, the catch-up rounds eventually complete and a configuration entry
\* in which the server is a voter is committed and applied on all servers of
\* the cluster (at index 3 in the scenario), the leader's configuration
\* listing it as a voter.
PromotionEventuallyApplied ==
    (env.test = "addVoting" /\ env.assigned) ~> PromotionApplied

\* The promotion of the added server went through a catch-up and has been
\* applied on every server, the added one included.
PromotedAfterCatchUp ==
    /\ env.test = "addVoting"
    /\ env.assigned
    /\ PromotionApplied
    /\ cluster[env.added].last_applied >= 3
    /\ cluster[env.added].configuration = Leader.configuration

\* The removal asked by the test is committed on the leader.
RemovalCommitted ==
    /\ env.removed # 0
    /\ Leader.configuration_uncommitted_index = 0
    /\ Leader.change = 0
    /\ configurationGet(Leader.configuration, env.removed) = NullServer
    /\ Leader.configuration_index >= 2
    /\ logGet(Leader.log, Leader.configuration_index).data = Leader.configuration

\* The leader's configuration is committed and its voters are the two voters
\* that were not removed and the promoted server.
RemovedAndPromoted ==
    /\ RemovalCommitted
    /\ Leader.promotee_id = 0
    /\ Leader.configuration_index <= Leader.commit_index
    /\ configurationVoters(Leader.configuration) = ((1..3) \ {env.removed}) \cup {env.n}
    /\ configurationVoterCount(Leader.configuration) = 3

\* C24: in a cluster of four servers, three voters and a non-voter, with a
\* stable leader and messages that are eventually delivered, the removal of a
\* voter that is not the leader succeeds and is eventually committed; a
\* raft_assign of the voter role to the non-voter made once the removal is
\* committed succeeds, and the configuration that is finally committed has
\* exactly three voters, the promoted server among them and the removed one
\* not.
RemoveThenPromote ==
    /\ [](env.test = "removeVotingPromoteSpare" /\ env.removed = 0
            => raft_remove(Entered(Leader), FreshReq(Leader), RemovedByTest,
                           "none", "intact").rv = OK)
    /\ [](env.test = "removeVotingPromoteSpare" /\ RemovalCommitted /\ ~env.assigned
            => raft_assign(Entered(Leader), FreshReq(Leader), env.n,
                           RAFT_VOTER, "none").rv = OK)
    /\ [][(env.test = "removeVotingPromoteSpare" /\ env'.assigned # env.assigned)
            => RemovalCommitted]_vars
    /\ (env.test = "removeVotingPromoteSpare" /\ env.removed # 0) ~> RemovalCommitted
    /\ (env.test = "removeVotingPromoteSpare" /\ env.assigned) ~> RemovedAndPromoted

\* The non-voter has been promoted after the removal of a voter, and holds the
\* final configuration itself.
PromotedAfterRemoval ==
    /\ env.test = "removeVotingPromoteSpare"
    /\ env.assigned
    /\ RemovedAndPromoted
    /\ Leader.configuration_index = 3
    /\ cluster[env.n].configuration = Leader.configuration
    /\ cluster[env.removed].configuration # Leader.configuration

\* The servers of the leader's configuration whose log holds the entry at
\* index n.
HoldersOf(n) ==
    {i \in 1..Len(Leader.configuration) :
        logHas(cluster[Leader.configuration[i].id].log, n)}

\* The removal entry (index 2) is committed and applied on the leader.
RemovalApplied ==
    /\ RemovalCommitted
    /\ Leader.configuration_index = 2
    /\ Leader.last_applied >= 2

\* C25: once raft_remove of a voter that is not the leader has returned 0 on
\* the leader of a cluster of N servers (N in 3..MaxServers), the leader's
\* configuration has N - 1 servers and does not hold the removed id; with a
\* stable leader and messages that are eventually delivered the entry is
\* eventually committed and applied, and it is committed only when a majority
\* of the N - 1 remaining voters hold it.
RemoveShrinksConfiguration ==
    /\ [](env.test = "removeVoting" /\ env.removed = 0
            => raft_remove(Entered(Leader), FreshReq(Leader), RemovedByTest,
                           "none", "intact").rv = OK)
    /\ [](env.test = "removeVoting" /\ env.removed # 0
            => /\ Len(Leader.configuration) = env.n - 1
               /\ configurationGet(Leader.configuration, env.removed) = NullServer
               /\ Leader.commit_index >= 2
                    => /\ RemovalApplied
                       /\ 2 * Cardinality(HoldersOf(2)) > env.n - 1)
    /\ (env.test = "removeVoting" /\ env.removed # 0) ~> RemovalApplied

\* The removal was committed in a cluster of four by the two servers that
\* make a majority of the three that remain, the removed server not holding
\* the entry.
RemovalCommittedByNewQuorum ==
    /\ env.test = "removeVoting"
    /\ env.n = 4
    /\ RemovalApplied
    /\ Cardinality(HoldersOf(2)) = 2
    /\ ~logHas(cluster[env.removed].log, 2)

(***************************************************************************)
(* Properties of the membership changes of a replica (ReplicaSpec).        *)
(***************************************************************************)
\* The ids of configuration c, in order.
ConfigurationIds(c) == [i \in 1..Len(c) |-> c[i].id]

\* The positions at which configurations c and d of the same length differ.
ChangedServers(c, d) == {i \in 1..Len(c) : c[i] # d[i]}

\* C26: a raft_add that succeeds appends the new server to the configuration
\* with the spare role and leaves every other server as it was; a raft_assign
\* that succeeds, and the promotion that completes it, change the role of at
\* most one server and neither the ids nor their order, so the added server
\* stays in the last slot.
AddAppendsAssignKeepsOrder ==
    [][/\ (ret'.op = "add" /\ ret'.rv = OK)
            => /\ Len(raft'.configuration) = Len(raft.configuration) + 1
               /\ SubSeq(raft'.configuration, 1, Len(raft.configuration)) = raft.configuration
               /\ raft'.configuration[Len(raft'.configuration)].role = RAFT_SPARE
               /\ configurationGet(raft.configuration,
                                   raft'.configuration[Len(raft'.configuration)].id) = NullServer
       /\ ((ret'.op = "assign" /\ ret'.rv = OK)
              \/ (ret'.op = "append_entries_result" /\ raft'.state = RAFT_LEADER))
            => /\ ConfigurationIds(raft'.configuration) = ConfigurationIds(raft.configuration)
               /\ Cardinality(ChangedServers(raft.configuration, raft'.configuration)) <= 1
               /\ ret'.op = "append_entries_result"
                    => \A i \in ChangedServers(raft.configuration, raft'.configuration) :
                          /\ raft.configuration[i].id = raft.promotee_id
                          /\ raft'.configuration[i].role = RAFT_VOTER]_vars

\* Server 4 was added and then given another role: it is still the last
\* server of the configuration.
AddedServerAssigned ==
    /\ ret.op = "assign"
    /\ ret.rv = OK
    /\ Len(raft.configuration) = 4
    /\ raft.configuration[4].id = 4
    /\ raft.configuration[4].role # RAFT_SPARE
    /\ SubSeq(raft.configuration, 1, 3) = BootstrapConfiguration

\* C27: a configuration entry takes effect on the leader when it is appended,
\* not when it is committed: when raft_add, raft_remove or a raft_assign that
\* submits its change at once returns 0, the log is one entry longer, that
\* entry encodes the leader's configuration, which is the new one, and
\* configuration_uncommitted_index is its index, the commit index being as
\* before.
ConfigurationTakesEffectAtAppend ==
    [][/\ (ret'.op \in {"add", "remove"} /\ ret'.rv = OK)
            => logLastIndex(raft'.log) = logLastIndex(raft.log) + 1
       /\ (ret'.op \in ChangeOps /\ ret'.rv = OK
              /\ logLastIndex(raft'.log) = logLastIndex(raft.log) + 1)
            => /\ logGet(raft'.log, logLastIndex(raft'.log)).type = RAFT_CHANGE
               /\ logGet(raft'.log, logLastIndex(raft'.log)).data = raft'.configuration
               /\ raft'.configuration # raft.configuration
               /\ raft'.configuration_uncommitted_index = logLastIndex(raft.log) + 1
               /\ raft'.commit_index = raft.commit_index
               /\ raft'.commit_index < raft'.configuration_uncommitted_index
               /\ raft'.configuration_index = raft.configuration_index]_vars

\* The leader runs on a configuration without server 2 that is not committed.
UncommittedRemovalInEffect ==
    /\ ret.op = "remove"
    /\ ret.rv = OK
    /\ raft.state = RAFT_LEADER
    /\ configurationGet(raft.configuration, 2) = NullServer
    /\ raft.configuration_uncommitted_index = logLastIndex(raft.log)
    /\ raft.commit_index < logLastIndex(raft.log)
    /\ raft.configuration_index = 1

\* C28: a raft_assign that succeeds in promoting to voter a server whose
\* match index is below the leader's last index appends no entry and changes
\* no role: it registers the change, records the promotee and starts round 1
\* of the catch-up with round_index = the last index and round_start = the
\* time of the request.  A raft_assign that succeeds otherwise (a role other
\* than voter, or a server whose match index is the last index) appends the
\* configuration entry with the new role before it returns.
AssignCatchesUpOrSubmits ==
    [][(ret'.op = "assign" /\ ret'.rv = OK)
        => LET i == configurationIndexOf(raft.configuration, ret'.id)
           IN  /\ raft.change = 0
               /\ raft'.change # 0
               /\ IF ret'.role = RAFT_VOTER
                     /\ progressMatchIndex(raft, i) < logLastIndex(raft.log)
                  THEN /\ raft'.log = raft.log
                       /\ raft'.configuration = raft.configuration
                       /\ raft'.configuration_uncommitted_index = 0
                       /\ raft'.promotee_id = ret'.id
                       /\ raft'.round_number = 1
                       /\ raft'.round_index = logLastIndex(raft.log)
                       /\ raft'.round_start = raft.now
                  ELSE /\ logLastIndex(raft'.log) = logLastIndex(raft.log) + 1
                       /\ logGet(raft'.log, logLastIndex(raft'.log)).type = RAFT_CHANGE
                       /\ logGet(raft'.log, logLastIndex(raft'.log)).data = raft'.configuration
                       /\ raft'.configuration =
                              [raft.configuration EXCEPT ![i].role = ret'.role]
                       /\ raft'.promotee_id = 0
                       /\ raft'.round_number = 0]_vars

\* The promotion of server 4, which holds nothing of the log, is catching up.
PromotionCatchingUp ==
    /\ ret.op = "assign"
    /\ ret.rv = OK
    /\ ret.role = RAFT_VOTER
    /\ ret.id = 4
    /\ raft.promotee_id = 4
    /\ raft.round_number = 1
    /\ raft.round_index = logLastIndex(raft.log)
    /\ configurationGet(raft.configuration, 4).role = RAFT_SPARE
    /\ raft.configuration_uncommitted_index = 0
    /\ raft.change # 0

(***************************************************************************)
(* Properties of the receive handlers, continued.                          *)
(***************************************************************************)
\* The AppendEntriesResult messages that the transport may deliver to r.
ResultsFor(r) ==
    [term : 1..(MaxTerm + 1), rejected : 0..(logLastIndex(r.log) + 1),
     last_log_index : 0..logLastIndex(r.log)]

\* Handling the result left the progress table, the commit index, the term
\* and the role of r alone.
ResultIgnored(r, id, result) ==
    LET after == recvAppendEntriesResult(Entered(r), id, result).r
    IN  /\ after.progress = r.progress
        /\ after.commit_index = r.commit_index
        /\ after.current_term = r.current_term
        /\ after.state = r.state

MaxTicks == 5

tick(r, timeout) ==
    IF /\ r.state \in {RAFT_FOLLOWER, RAFT_CANDIDATE}
       /\ r.now - r.election_timer_start >= timeout
    THEN electionStart(r)
    ELSE r

\* The clock advances and the driver runs; timeout is the randomized
\* election timeout in force.
TimerTick ==
    /\ raft.now < MaxTicks
    /\ \E timeout \in ElectionTimeout..(2 * ElectionTimeout - 1) :
          LET r1 == [Entered(raft) EXCEPT !.now = raft.now + 1]
          IN  /\ raft' = tick(r1, timeout)
              /\ ret' = Ret(IF raft'.current_term > raft.current_term
                            THEN "election" ELSE "tick", OK, "none", 0)
    /\ UNCHANGED <<uv, cluster, env>>

\* The transport delivers an InstallSnapshot from server 2.
TimerInstallSnapshot ==
    /\ \E term \in 1..(MaxTerm + 1), last_index \in 1..MaxLog, mf \in InstallFailures :
          LET args == [term |-> term, last_index |-> last_index, last_term |-> 1,
                       conf |-> BootstrapConfiguration, conf_index |-> 1]
              c == recvInstallSnapshot(Entered(raft), 2, args, mf[1], mf[2])
          IN  /\ raft' = c.r
              /\ ret' = InstallRet(c.rv, mf[2], args, c.reply)
              /\ env' = IF term = raft.current_term /\ mf[2] # "leader"
                        THEN [accepted_at |-> raft.now,
                              was_candidate |-> raft.state = RAFT_CANDIDATE]
                        ELSE env
    /\ UNCHANGED <<uv, cluster>>

\* The snapshot store completed the installation started by an InstallSnapshot.
TimerInstallDone ==
    /\ raft.installing # NoSnapshot
    /\ raft' = SnapshotInstalled(Entered(raft), raft.installing)
    /\ ret' = Ret("install_snapshot_done", OK, "none", 0)
    /\ UNCHANGED <<uv, cluster, env>>

TimerInit ==
    /\ raft = RaftInit(1, BootstrapConfiguration)
    /\ ret = NoRet
    /\ uv = 0
    /\ cluster = 0
    /\ env = [accepted_at |-> -1, was_candidate |-> FALSE]

TimerNext ==
    \/ TimerTick
    \/ TimerInstallSnapshot
    \/ TimerInstallDone

TimerSpec == TimerInit /\ [][TimerNext]_vars

\* C30: a candidate that receives an InstallSnapshot of its current term
\* converts to follower; a follower or candidate accepting an InstallSnapshot
\* of its current term records the sender as leader and restarts its election
\* timer, whether or not the snapshot has been installed by the time the
\* handler returns; and it starts no election within one election timeout of
\* that message.
InstallSnapshotRestartsTimer ==
    /\ [][(ret'.op = "install_snapshot" /\ ret'.term = raft.current_term)
            => /\ raft.state = RAFT_CANDIDATE => raft'.state = RAFT_FOLLOWER
               /\ ret'.fail # "leader"
                    => /\ raft'.state = RAFT_FOLLOWER
                       /\ raft'.current_leader = 2
                       /\ raft'.election_timer_start = raft.now
                       /\ raft'.now = raft.now]_vars
    /\ [][(ret'.op = "election" /\ env.accepted_at >= 0)
            => raft'.now - env.accepted_at >= ElectionTimeout]_vars

\* A candidate accepted an InstallSnapshot of its term while the clock was
\* running, became a follower, and started its next election one timeout
\* later or more.
CandidateWaitedAfterSnapshot ==
    /\ ret.op = "election"
    /\ env.accepted_at > 0
    /\ env.was_candidate
    /\ raft.state = RAFT_CANDIDATE
    /\ raft.now - env.accepted_at = ElectionTimeout

(***************************************************************************)
(* The queue of snapshot puts (SnapshotSpec).                              *)
(***************************************************************************)
\* C31: at most one snapshot put runs at a time (a put is started only when
\* none is running), puts are started in the order they were submitted (the
\* put that is started was submitted before every put still queued and after
\* every put that has completed), and no put is started while a truncate
\* barrier is pending.
PutsStartOneAtATimeInOrder ==
    [][(uv'.snapshot_put_work # 0 /\ uv'.snapshot_put_work # uv.snapshot_put_work)
          => /\ uv.snapshot_put_work = 0
             /\ ~uv'.barrier
             /\ \A p \in Range(uv'.snapshot_put_reqs) : p.req >= uv'.snapshot_put_work
             /\ \A i \in 1..Len(uv.fired) :
                   uv.fired[i].kind = "put" => uv.fired[i].req < uv'.snapshot_put_work]_vars

\* The end of a truncate barrier started the older of two queued puts, after
\* an earlier put had completed.
BarrierEndStartedOldestPut ==
    /\ ret.op = "uvTruncateAfterWorkCb"
    /\ Len(uv.snapshot_put_reqs) = 2
    /\ uv.snapshot_put_work = uv.snapshot_put_reqs[1].req
    /\ uv.put_pc = "meta"
    /\ \E i \in 1..Len(uv.fired) : uv.fired[i].kind = "put"

\* C33: every snapshot put accepted by UvSnapshotPut eventually has its
\* callback invoked; a put queued behind a running put or a barrier is
\* started once the earlier put has completed and the barrier is lifted,
\* without a further put being submitted.  Between two entry points of the
\* store a queued put is therefore either running, or behind the put that
\* is running, or held up by a barrier.
QueuedPutIsStarted ==
    uv.snapshot_put_reqs # <<>> => (uv.snapshot_put_work # 0 \/ uv.barrier)

(***************************************************************************)
(* Failed membership changes (ReplicaSpec).                                *)
(***************************************************************************)
\* C34: whenever raft_add, raft_assign or raft_remove returns an error, no
\* change request remains registered on the leader because of that call:
\* if no change was registered and no server was being promoted before the
\* call, leader_state.change is unset and no promotee is recorded after it,
\* and a leader that could change its configuration before the call still
\* can.
FailedChangeLeavesNoneRegistered ==
    [][(/\ ret'.op \in ChangeOps
        /\ ret'.rv # OK
        /\ raft.change = 0
        /\ raft.promotee_id = 0)
          => /\ raft'.change = 0
             /\ raft'.promotee_id = 0
             /\ membershipCanChangeConfiguration(raft) = OK
                   => membershipCanChangeConfiguration(raft') = OK]_vars

(***************************************************************************)
(* Ownership in the prepare pool (PrepareSpec).                            *)
(***************************************************************************)
\* The counters of the segments a request was handed.
HandedCounters(u) ==
    {u.fired[i].counter : i \in {k \in 1..Len(u.fired) : u.fired[k].status = OK}}

PoolCounters(u) == {u.prepare_pool[i].counter : i \in 1..Len(u.prepare_pool)}

WorkCounters(u) == {s.counter : s \in u.work}

\* C35: in every interleaving of uvPrepare calls, allocation completions and
\* close, the callback of each request is invoked at most once; the segments
\* allocated have pairwise distinct counters; each segment is owned by
\* exactly one of the in-flight slot, the pool, or the one request it was
\* handed to; and no segment is handed to a request once close has begun.
PrepareSingleOwner ==
    /\ [](/\ \A i, j \in 1..Len(uv.fired) :
                i # j => /\ uv.fired[i].req # uv.fired[j].req
                         /\ (uv.fired[i].status = OK /\ uv.fired[j].status = OK)
                               => uv.fired[i].counter # uv.fired[j].counter
          /\ \A i, j \in 1..Len(uv.prepare_pool) :
                i # j => uv.prepare_pool[i].counter # uv.prepare_pool[j].counter
          /\ \A s, t \in uv.work : s.counter = t.counter => s = t
          /\ WorkCounters(uv) = {uv.prepare_inflight} \ {0}
          /\ WorkCounters(uv) \cap PoolCounters(uv) = {}
          /\ WorkCounters(uv) \cap HandedCounters(uv) = {}
          /\ PoolCounters(uv) \cap HandedCounters(uv) = {}
          /\ \A c \in WorkCounters(uv) \cup PoolCounters(uv) \cup HandedCounters(uv) :
                c < uv.prepare_next_counter)
    /\ [][uv'.closing => HandedCounters(uv') = HandedCounters(uv)]_vars

\* Close began while one request held a segment, another was waiting and an
\* allocation was in flight: the waiting request was canceled, the allocation
\* is marked canceled and nothing is left in the pool.
ClosedWithSegmentsOut ==
    /\ uv.closing
    /\ HandedCounters(uv) # {}
    /\ \E i \in 1..Len(uv.fired) : uv.fired[i].status = RAFT_CANCELED
    /\ \E s \in uv.work : s.canceled
    /\ uv.prepare_pool = <<>>

(***************************************************************************)
(* The prepare pool under fair completion of allocations: the thread pool  *)
(* runs every work callback it was handed and the loop runs the after-work *)
(* callback of every work callback that has run.                           *)
(***************************************************************************)
PrepareLiveSpec ==
    /\ PrepareSpec
    /\ WF_vars(UvPrepareCreateFileWork)
    /\ WF_vars(UvPrepareCreateFileAfterWork)

\* The callback of request req has been invoked.
PrepareFired(req) == \E i \in 1..Len(uv.fired) : uv.fired[i].req = req

\* Every callback invoked so far was given one of the statuses.
PrepareStatusesIn(statuses) ==
    \A i \in 1..Len(uv.fired) : uv.fired[i].status \in statuses

\* A request pending on an empty pool of a store that is neither errored nor
\* closing has an allocation in flight, and a successful allocation that is
\* not canceled completes the oldest pending request with its segment.
PendingRequestHasAllocation ==
    /\ [](uv.prepare_reqs # <<>>
            => /\ uv.prepare_pool = <<>>
               /\ (~uv.errored /\ ~uv.closing) => uv.prepare_inflight # 0)
    /\ [][(/\ ret'.op = "uvPrepareCreateFileAfterWorkCb"
           /\ uv.prepare_reqs # <<>>
           /\ InflightSegment(uv).status = OK
           /\ ~InflightSegment(uv).canceled)
             => /\ Len(uv'.fired) > Len(uv.fired)
                /\ uv'.fired[Len(uv.fired) + 1] =
                      [req |-> Head(uv.prepare_reqs), status |-> OK,
                       counter |-> InflightSegment(uv).counter,
                       fd |-> InflightSegment(uv).fd]]_vars

\* C32, as stated: under fair completion of allocations every request
\* submitted eventually has its callback invoked, with success, io-error or
\* canceled; a request pending on an empty pool of a store that is neither
\* errored nor closing has an allocation in flight and the next successful
\* allocation completes the oldest pending request.
PrepareEventuallyFiredThreeStatuses ==
    /\ PendingRequestHasAllocation
    /\ []PrepareStatusesIn({OK, RAFT_IOERR, RAFT_CANCELED})
    /\ \A req \in 1..MaxPrepareReqs : (uv.n_reqs >= req) ~> PrepareFired(req)

\* C32, amended: the callback is invoked with success, io-error, no-memory
\* (when the allocation of the segment object fails in prepareSegment) or
\* canceled; the rest is as stated.
PrepareEventuallyFired ==
    /\ PendingRequestHasAllocation
    /\ []PrepareStatusesIn({OK, RAFT_IOERR, RAFT_NOMEM, RAFT_CANCELED})
    /\ \A req \in 1..MaxPrepareReqs : (uv.n_reqs >= req) ~> PrepareFired(req)

\* Three requests waited on an empty pool; allocations completed one after
\* the other and each served the oldest request waiting.
PrepareBacklogServed ==
    /\ ret.op = "uvPrepareCreateFileAfterWorkCb"
    /\ ret.fired = 1
    /\ Len(uv.fired) = MaxPrepareReqs
    /\ \A i \in 1..Len(uv.fired) : uv.fired[i] = [req |-> i, status |-> OK,
                                                  counter |-> i, fd |-> i]
    /\ ~uv.errored
    /\ ~uv.closing

=============================================================================
